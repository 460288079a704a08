---------------------------- MODULE FormatsProofs ----------------------------
(***************************************************************************)
(* Proofs about the files that are made of others, and about those that use*)
(* them. Agents apart: under the lock file the device node is safe to use  *)
(* and no module of the pack is loaded twice, for any interfaces and any   *)
(* chains of modules. The merge of Synology's own modules into a driver    *)
(* pack. The range coder, for any widths and models: what is read is what  *)
(* was written. The LZMA stream, for any texts, dictionary and lengths: the*)
(* text comes back.                                                        *)
(***************************************************************************)
EXTENDS Hotplug, PackMerge, RangeCoder, LzmaStream, ListProofs

\* Where an agent has taken the lock.
Critical == {"check", "node", "read", "load", "remove", "unlock"}

\* The strengthening: an agent past the lock is the one that holds it, so no
\* other agent is there to remove its node.
Holds == \A i \in Interfaces : pc[i] \in Critical => lock = i
IInv == pc \in [Interfaces -> Places] /\ Holds /\ NodeThere

\* What a step of one agent does to the places of all.
LEMMA AtPlaces ==
  ASSUME pc \in [Interfaces -> Places], NEW i \in Interfaces, NEW from, NEW to \in Places,
         At(i, from, to)
  PROVE  /\ pc[i] = from /\ pc' \in [Interfaces -> Places]
         /\ pc'[i] = to /\ \A j \in Interfaces \ {i} : pc'[j] = pc[j]
BY DEF At

\* Every step of an agent keeps the strengthening.
LEMMA AgentIInv == ASSUME IInv, NEW i \in Interfaces, Agent(i) PROVE IInv'
<1> USE DEF IInv, Holds, NodeThere, Critical, Places
<1>1. CASE WaitEnds(i)
  <2>1. CASE At(i, "wait", "done")
    BY <1>1, <2>1, AtPlaces DEF WaitEnds
  <2>2. CASE At(i, "wait", "lock")
    BY <1>1, <2>2, AtPlaces DEF WaitEnds
  <2> QED
    BY <1>1, <2>1, <2>2 DEF WaitEnds
<1>2. CASE Lock(i)
  <2>1. At(i, "lock", "check") /\ lock = Free /\ lock' = i /\ node' = node
    BY <1>2 DEF Lock
  <2>2. \A j \in Interfaces : pc[j] \notin Critical
    BY <2>1, HotplugAssumption
  <2> QED
    BY <2>1, <2>2, AtPlaces
<1>3. CASE Check(i)
  <2>1. CASE At(i, "check", "unlock")
    BY <1>3, <2>1, AtPlaces DEF Check
  <2>2. CASE At(i, "check", "node")
    BY <1>3, <2>2, AtPlaces DEF Check
  <2> QED
    BY <1>3, <2>1, <2>2 DEF Check
<1>4. CASE MakeNode(i)
  <2>1. CASE At(i, "node", "read") /\ node' = TRUE
    BY <1>4, <2>1, AtPlaces DEF MakeNode, At
  <2>2. CASE At(i, "node", "unlock") /\ UNCHANGED node
    BY <1>4, <2>2, AtPlaces DEF MakeNode, At
  <2> QED
    BY <1>4, <2>1, <2>2 DEF MakeNode
<1>5. CASE ReadPack(i)
  <2>1. CASE At(i, "read", "load")
    BY <1>5, <2>1, AtPlaces DEF ReadPack
  <2>2. CASE At(i, "read", "remove")
    BY <1>5, <2>2, AtPlaces DEF ReadPack
  <2> QED
    BY <1>5, <2>1, <2>2 DEF ReadPack
<1>6. CASE Load(i)
  BY <1>6 DEF Load, LoadOne
<1>7. CASE LoadEnds(i)
  BY <1>7, AtPlaces DEF LoadEnds
<1>8. CASE RemoveNode(i)
  <2>1. At(i, "remove", "unlock") /\ lock = i /\ lock' = lock
    BY <1>8 DEF RemoveNode, At
  <2>2. \A j \in Interfaces \ {i} : pc[j] \notin Critical
    BY <2>1
  <2> QED
    BY <2>1, <2>2, AtPlaces
<1>9. CASE Unlock(i)
  <2>1. At(i, "unlock", "done") /\ lock = i /\ node' = node
    BY <1>9 DEF Unlock, At
  <2>2. \A j \in Interfaces \ {i} : pc[j] \notin Critical
    BY <2>1
  <2> QED
    BY <2>1, <2>2, AtPlaces
<1> QED
  BY <1>1, <1>2, <1>3, <1>4, <1>5, <1>6, <1>7, <1>8, <1>9 DEF Agent

\* So does every other step, the killing of an agent among them.
LEMMA StepIInv == IInv /\ [Next]_vars => IInv'
<1> SUFFICES ASSUME IInv, [Next]_vars PROVE IInv'
  OBVIOUS
<1> USE DEF IInv, Holds, NodeThere, Critical, Places
<1>1. ASSUME NEW i \in Interfaces, Plug(i) PROVE IInv'
  <2>1. At(i, "none", "wait") /\ lock' = lock /\ node' = node
    BY <1>1 DEF Plug
  <2> QED
    BY <2>1, AtPlaces
<1>2. ASSUME NEW i \in Interfaces, Unplug(i) \/ Bind(i) PROVE IInv'
  BY <1>2 DEF Unplug, Bind
<1>3. ASSUME NEW i \in Interfaces, Kill(i) PROVE IInv'
  <2>1. pc' \in [Interfaces -> Places] /\ pc'[i] = "done"
          /\ \A j \in Interfaces \ {i} : pc'[j] = pc[j]
    BY <1>3 DEF Kill
  <2>2. CASE lock = i
    <3>1. \A j \in Interfaces \ {i} : pc[j] \notin Critical
      BY <2>2
    <3> QED
      BY <2>1, <3>1
  <2>3. CASE lock # i
    BY <1>3, <2>1, <2>3 DEF Kill
  <2> QED
    BY <2>2, <2>3
<1>4. CASE UNCHANGED vars
  BY <1>4 DEF vars
<1> QED
  BY <1>1, <1>2, <1>3, <1>4, AgentIInv DEF Next

\* The node an agent is about to read is there: partitionNodeOf's Remove and
\* Mknod and the deferred Remove of another agent fall outside this one's
\* hold on hotplugLock.
THEOREM NodeThereCorrect == Spec => []NodeThere
<1>1. Init => IInv
  BY DEF Init, IInv, Holds, NodeThere, Critical, Places
<1>2. IInv /\ [Next]_vars => IInv'
  BY StepIInv
<1>3. IInv => NodeThere
  BY DEF IInv
<1> QED
  BY <1>1, <1>2, <1>3, PTL DEF Spec
-----------------------------------------------------------------------------
(* No module twice.                                                        *)

\* Each agent's variables of the kernel and of the bus keep their types.
LEMMA TypeStep == TypeOK /\ [Next]_vars => TypeOK'
<1> SUFFICES ASSUME TypeOK, [Next]_vars PROVE TypeOK'
  OBVIOUS
<1> USE DEF TypeOK
<1>1. ASSUME NEW i \in Interfaces, Agent(i) PROVE TypeOK'
  <2>1. CASE WaitEnds(i) \/ Lock(i) \/ Check(i) \/ MakeNode(i) \/ LoadEnds(i) \/ RemoveNode(i) \/ Unlock(i)
    BY <2>1, HotplugAssumption
       DEF WaitEnds, Lock, Check, MakeNode, LoadEnds, RemoveNode, Unlock, At, Places
  <2>2. CASE ReadPack(i)
    <3>1. Chain[i] \in Seq(Modules) /\ Missing(i) \subseteq DOMAIN Chain[i] /\ Missing(i) \subseteq Nat
      BY HotplugAssumption DEF Missing
    <3> QED
      BY <2>2, <3>1 DEF ReadPack, At, Places
  <2>3. CASE Load(i)
    <3>1. PICK p \in order[i] : LoadOne(i, p)
      BY <2>3 DEF Load
    <3>2. Chain[i] \in Seq(Modules) /\ p \in DOMAIN Chain[i] /\ Chain[i][p] \in Modules
      BY HotplugAssumption
    <3> QED
      BY <3>1, <3>2 DEF LoadOne
  <2> QED
    BY <1>1, <2>1, <2>2, <2>3 DEF Agent
<1>2. ASSUME NEW i \in Interfaces, Plug(i) \/ Unplug(i) \/ Bind(i) \/ Kill(i) PROVE TypeOK'
  BY <1>2 DEF Plug, Unplug, Bind, Kill, At, Places
<1>3. CASE UNCHANGED vars
  BY <1>3 DEF vars
<1> QED
  BY <1>1, <1>2, <1>3 DEF Next

\* What an agent has yet to load is not in the kernel: it was asked under the
\* lock, and only the one that holds the lock loads.
Fresh ==
  \A i \in Interfaces : pc[i] = "load" =>
    \A p \in order[i] : Chain[i][p] \notin loaded

LInv == TypeOK /\ IInv /\ Fresh

LEMMA FreshStep == LInv /\ [Next]_vars => Fresh'
<1> SUFFICES ASSUME LInv, [Next]_vars PROVE Fresh'
  OBVIOUS
<1> USE DEF LInv, TypeOK, IInv, Holds, Critical, Fresh
<1>1. ASSUME NEW i \in Interfaces, Agent(i) PROVE Fresh'
  <2>1. CASE WaitEnds(i) \/ Lock(i) \/ Check(i) \/ MakeNode(i) \/ LoadEnds(i) \/ RemoveNode(i) \/ Unlock(i)
    BY <2>1 DEF WaitEnds, Lock, Check, MakeNode, LoadEnds, RemoveNode, Unlock, At
  <2>2. CASE ReadPack(i)
    BY <2>2 DEF ReadPack, At, Missing
  <2>3. CASE Load(i)
    <3>1. PICK p \in order[i] : LoadOne(i, p)
      BY <2>3 DEF Load
    <3>2. \A j \in Interfaces \ {i} : pc[j] # "load"
      BY <3>1 DEF LoadOne
    <3>3. pc' = pc /\ order'[i] = order[i] \ {p} /\ loaded' \subseteq loaded \cup {Chain[i][p]}
      BY <3>1 DEF LoadOne
    <3>4. \A q \in order[i] \ {p} : Chain[i][q] # Chain[i][p]
      BY HotplugAssumption
    <3> QED
      BY <3>1, <3>2, <3>3, <3>4 DEF LoadOne
  <2> QED
    BY <1>1, <2>1, <2>2, <2>3 DEF Agent
<1>2. ASSUME NEW i \in Interfaces, Plug(i) \/ Unplug(i) \/ Bind(i) \/ Kill(i) PROVE Fresh'
  BY <1>2 DEF Plug, Unplug, Bind, Kill, At
<1>3. CASE UNCHANGED vars
  BY <1>3 DEF vars
<1> QED
  BY <1>1, <1>2, <1>3 DEF Next

\* Agents started at once for any number of interfaces, of chains that share
\* modules, do not spoil each other's work: the node stays while one reads,
\* and no module goes to the kernel a second time, because runHotplug asks
\* /proc/modules after it has hotplugLock and ResolvePreferring names no module
\* twice.
THEOREM AgentsApartCorrect == Spec => AgentsApart
<1>1. Init => LInv
  BY HotplugAssumption
     DEF Init, LInv, TypeOK, IInv, Holds, NodeThere, Critical, Places, Fresh
<1>2. LInv /\ [Next]_vars => LInv'
  BY TypeStep, StepIInv, FreshStep DEF LInv
<1>3. LInv => TypeOK /\ NodeThere
  BY DEF LInv, IInv
<1>4. LInv /\ [Next]_vars =>
        [\A i \in Interfaces : \A p \in order[i] :
           LoadOne(i, p) => Chain[i][p] \notin loaded]_vars
  BY DEF LInv, Fresh, LoadOne
<1> QED
  BY <1>1, <1>2, <1>3, <1>4, PTL DEF Spec, AgentsApart, NoDoubleLoad

(***************************************************************************)
(* The merge of the originals. While the list is worked through, what is   *)
(* taken is what every closed choice of originals takes, and what it needs *)
(* is taken or still on the list.                                          *)
(***************************************************************************)

\* A choice of originals that rules 3 and 4 allow.
Closed(S) ==
    /\ Drivers \subseteq S
    /\ \A n \in Replaced \cup S : {d \in orig[n].deps : Addable(d)} \subseteq S

\* The worklist's invariant, when it is begun.
Working ==
    /\ \A n \in take : Addable(n)
    /\ Drivers \subseteq take \cup todo
    /\ \A n \in Replaced \cup take : {d \in orig[n].deps : Addable(d)} \subseteq take \cup todo
    /\ \A S : Closed(S) => take \subseteq S /\ {n \in todo : Addable(n)} \subseteq S

\* What FinishMerge gives.
Merged ==
    merged = [pack |-> [n \in DOMAIN ours \cup take |->
                           IF n \in Replaced \cup take THEN "original" ELSE ours[n]],
              list |-> Replaced \cup take]

\* A merged pack leaves nothing to add, and has the originals listed.
Second ==
    /\ Drivers = {} /\ \A n \in Replaced : {d \in orig[n].deps : Addable(d)} = {}
    /\ ours = [n \in DOMAIN ours |-> ours[n]]
    /\ before[1].merged = [pack |-> ours, list |-> before[1].merged.list]
    /\ KeepOurs \cap DOMAIN orig \subseteq DOMAIN before[1].ours =>
          Replaced = before[1].merged.list /\ \A n \in Replaced : ours[n] = "original"

MInv ==
    /\ doing \in {"start", "take", "merged"}
    /\ doing # "start" => Working
    /\ doing = "merged" => todo = {} /\ Merged
    /\ before # <<>> => Second

LEMMA BeginMInv == ASSUME MInv, BeginMerge PROVE MInv'
<1>1. Working'
  BY DEF BeginMerge, Working, Closed, Drivers, Replaced, Addable
<1>2. before # <<>> => Second'
  BY DEF MInv, BeginMerge, Second, Drivers, Replaced, Addable
<1> QED
  BY <1>1, <1>2 DEF MInv, BeginMerge

LEMMA TakeMInv == ASSUME MInv, TakeNext PROVE MInv'
<1>1. PICK n \in todo :
        LET goesIn == Addable(n) /\ n \notin take
        IN  /\ todo' = (todo \ {n}) \cup IF goesIn THEN orig[n].deps ELSE {}
            /\ take' = take \cup IF goesIn THEN {n} ELSE {}
  BY DEF TakeNext
<1>2. UNCHANGED <<ours, orig, doing, merged, before>> /\ doing = "take" /\ Working
  BY DEF TakeNext, MInv
<1>3. /\ Drivers' = Drivers /\ Replaced' = Replaced
      /\ \A m : Addable(m)' <=> Addable(m)
      /\ \A S : Closed(S)' <=> Closed(S)
  BY <1>2 DEF Drivers, Replaced, Addable, Closed
<1>4. Working'
  <2>1. CASE Addable(n) /\ n \notin take
    <3>1. todo' = (todo \ {n}) \cup orig[n].deps /\ take' = take \cup {n}
      BY <1>1, <2>1
    <3>2. \A S : Closed(S) => n \in S /\ {d \in orig[n].deps : Addable(d)} \subseteq S
      BY <1>2, <2>1 DEF Working, Closed
    <3>3. \A S : Closed(S) => take' \subseteq S /\ {m \in todo' : Addable(m)} \subseteq S
      BY <1>2, <3>1, <3>2 DEF Working
    <3> QED
      BY <1>2, <1>3, <2>1, <3>1, <3>3 DEF Working
  <2>2. CASE ~(Addable(n) /\ n \notin take)
    <3>1. todo' = todo \ {n} /\ take' = take
      BY <1>1, <2>2
    <3>2. Drivers \subseteq take \cup (todo \ {n})
      BY <1>2, <2>2 DEF Working, Drivers, Addable
    <3>3. \A m \in Replaced \cup take :
            {d \in orig[m].deps : Addable(d)} \subseteq take \cup (todo \ {n})
      BY <1>2, <2>2 DEF Working
    <3> QED
      BY <1>2, <1>3, <3>1, <3>2, <3>3 DEF Working
  <2> QED
    BY <2>1, <2>2
<1>5. before # <<>> => Second'
  BY <1>2, <1>3 DEF MInv, Second
<1> QED
  BY <1>2, <1>4, <1>5 DEF MInv

LEMMA FinishMInv == ASSUME MInv, FinishMerge PROVE MInv'
<1>1. UNCHANGED <<ours, orig, todo, take, before>> /\ doing = "take" /\ Working
  BY DEF FinishMerge, MInv
<1>2. Working'
  BY <1>1 DEF Working, Closed, Drivers, Replaced, Addable
<1>3. Merged' /\ todo' = {} /\ doing' = "merged"
  BY DEF FinishMerge, Merged, Replaced
<1>4. before # <<>> => Second'
  BY <1>1 DEF MInv, Second, Drivers, Replaced, Addable
<1> QED
  BY <1>1, <1>2, <1>3, <1>4 DEF MInv

LEMMA AgainMInv == ASSUME MInv, Again PROVE MInv'
<1>1. /\ Working /\ todo = {} /\ Merged /\ doing' = "start"
      /\ ours' = merged.pack /\ before' = <<[ours |-> ours, merged |-> merged]>> /\ orig' = orig
  BY DEF Again, MInv
<1>2. /\ ours' = [n \in DOMAIN ours \cup take |->
                     IF n \in Replaced \cup take THEN "original" ELSE ours[n]]
      /\ DOMAIN ours' = DOMAIN ours \cup take
      /\ \A n \in Replaced \cup take : n \in DOMAIN ours' /\ ours'[n] = "original"
  BY <1>1 DEF Merged, Replaced
<1>3. \A n : Addable(n)' => Addable(n) /\ n \notin take
  BY <1>1, <1>2 DEF Addable
<1>4. Drivers' = {}
  BY <1>1, <1>2 DEF Drivers, Working
<1>5. Replaced' = Replaced \cup (take \ KeepOurs)
  BY <1>1, <1>2 DEF Replaced, Working, Addable
<1>6. \A n \in Replaced' : {d \in orig'[n].deps : Addable(d)'} = {}
  BY <1>1, <1>3, <1>5 DEF Working
<1>7. KeepOurs \cap DOMAIN orig \subseteq DOMAIN ours => Replaced' = Replaced \cup take
  BY <1>1, <1>5 DEF Working, Addable
<1>8. /\ before'[1].ours = ours /\ before'[1].merged = merged
      /\ merged.list = Replaced \cup take /\ merged = [pack |-> ours', list |-> merged.list]
      /\ ours' = [n \in DOMAIN ours' |-> ours'[n]]
  BY <1>1, <1>2 DEF Merged
<1>9. Second'
  BY <1>1, <1>2, <1>4, <1>6, <1>7, <1>8 DEF Second
<1> QED
  BY <1>1, <1>9 DEF MInv

LEMMA MergeStep == MInv /\ [MergeNext]_mergeVars => MInv'
<1>1. ASSUME MInv, UNCHANGED mergeVars PROVE MInv'
  BY <1>1 DEF MInv, mergeVars, Working, Merged, Second, Closed, Drivers, Replaced, Addable
<1> QED
  BY <1>1, BeginMInv, TakeMInv, FinishMInv, AgainMInv DEF MergeNext

\* What the invariant says of a merge that is done.
LEMMA MergedIsSound == ASSUME MInv PROVE MergeSound
<1>1. MergeClosed
  BY DEF MInv, MergeClosed, Working, Merged, Replaced, Addable
<1>2. NothingMore
  <2> SUFFICES ASSUME doing = "merged", NEW S \in SUBSET (DOMAIN merged.pack \ DOMAIN ours),
                      Drivers \subseteq S,
                      \A n \in Replaced \cup S : {d \in orig[n].deps : Addable(d)} \subseteq S
               PROVE  DOMAIN merged.pack = DOMAIN ours \cup S
    BY DEF NothingMore
  <2>1. DOMAIN merged.pack = DOMAIN ours \cup take
    BY DEF MInv, Merged
  <2>2. take \subseteq S
    BY DEF MInv, Working, Closed
  <2> QED
    BY <2>1, <2>2
<1>3. MergedOnce
  <2> SUFFICES ASSUME doing = "merged", before # <<>>,
                      KeepOurs \cap DOMAIN orig \subseteq DOMAIN before[1].ours
               PROVE  merged = before[1].merged
    BY DEF MergedOnce
  <2>1. Closed({})
    BY DEF MInv, Second, Closed
  <2>2. take = {}
    BY <2>1 DEF MInv, Working
  <2>3. Replaced = before[1].merged.list /\ \A n \in Replaced : ours[n] = "original"
    BY DEF MInv, Second
  <2>4. ours = [n \in DOMAIN ours |-> ours[n]]
    BY DEF MInv, Second
  <2>5. [n \in DOMAIN ours \cup take |->
            IF n \in Replaced \cup take THEN "original" ELSE ours[n]] = ours
    BY <2>2, <2>3, <2>4
  <2> QED
    BY <2>2, <2>3, <2>5 DEF MInv, Merged, Second
<1> QED
  BY <1>1, <1>2, <1>3 DEF MergeSound

\* MergeOriginals gives a pack that has what its originals need, nothing that
\* no rule asks for, and that stays as it is when it is merged again, for any
\* pack, any originals and any order of the worklist.
THEOREM MergeSoundCorrect == MergeSpec => []MergeSound
<1>1. MergeInit => MInv
  BY DEF MergeInit, MInv
<1> QED
  BY <1>1, MergeStep, MergedIsSound, PTL DEF MergeSpec

(***************************************************************************)
(* The range coder: arithmetic.                                            *)
(***************************************************************************)

\* Quotient and remainder.
LEMMA Quotient ==
  ASSUME NEW a \in Int, NEW b \in Nat \ {0}
  PROVE  a \div b \in Int /\ a % b \in 0 .. b - 1 /\ a = b * (a \div b) + (a % b)
OBVIOUS

\* They are the only ones.
LEMMA QuotientIs ==
  ASSUME NEW a \in Int, NEW b \in Nat \ {0}, NEW q \in Int, NEW r \in 0 .. b - 1, a = b * q + r
  PROVE  a \div b = q /\ a % b = r
<1>1. PICK p \in Int, s \in 0 .. b - 1 : p = a \div b /\ s = a % b /\ a = (b * p) + s
  BY Quotient
<1>2. b * (p - q) = r - s
  BY <1>1
<1>3. p - q \in Int /\ r - s < b /\ s - r < b
  BY <1>1
<1>4. ~(p - q >= 1)
  <2> SUFFICES ASSUME p - q >= 1 PROVE FALSE
    OBVIOUS
  <2>1. PICK k \in Nat : p - q = k + 1
    BY <1>3
  <2>2. b * (k + 1) = b * k + b /\ b * k >= 0
    BY <2>1
  <2> QED
    BY <1>2, <1>3, <2>1, <2>2
<1>5. ~(q - p >= 1)
  <2> SUFFICES ASSUME q - p >= 1 PROVE FALSE
    OBVIOUS
  <2>1. PICK k \in Nat : q - p = k + 1
    BY <1>1
  <2>2. b * (k + 1) = b * k + b /\ b * k >= 0
    BY <2>1
  <2>3. b * (q - p) = s - r
    BY <1>1
  <2> QED
    BY <1>3, <2>1, <2>2, <2>3
<1> QED
  BY <1>1, <1>2, <1>3, <1>4, <1>5

Splits(a, b, q, r) == a = b * q + r

LEMMA RemainderIs ==
  ASSUME NEW a \in Int, NEW b \in Nat \ {0}, NEW q \in Int, NEW r \in 0 .. b - 1, Splits(a, b, q, r)
  PROVE  a % b = r
BY QuotientIs DEF Splits

\* Products keep the order, and of factors that are not 0 are not.
LEMMA Products ==
  ASSUME NEW a \in Int, NEW b \in Int, NEW k \in Nat
  PROVE  /\ a * k \in Int
         /\ a <= b => a * k <= b * k
         /\ (a < b /\ k > 0) => (a * k < b * k /\ (b - a) * k >= k)
OBVIOUS

\* The widths: a word is a byte and a top value, and both are even.
LEMMA Widths ==
  /\ Byte \in Nat /\ Byte >= 2
  /\ TopValue \in Nat /\ TopValue >= 2 /\ TopValue % 2 = 0
  /\ Word \in Nat /\ Word = Byte * TopValue /\ Word = TopValue * Byte /\ Word % 2 = 0
  /\ 2 * TopValue <= Word
<1>1. PICK h \in Nat : Byte = 2 * h /\ h >= 1
  <2>1. Byte \in Nat /\ Byte > 0 /\ Byte % 2 = 0
    BY WidthsAssumption
  <2>2. Byte = 2 * (Byte \div 2) /\ Byte \div 2 \in Nat /\ Byte \div 2 >= 1
    BY <2>1
  <2> QED
    BY <2>2
<1>2. PICK s \in Nat : s = h * Byte /\ s >= 1
  BY <1>1
<1>3. Byte * Byte = 2 * s
  BY <1>1, <1>2
<1>4. PICK t \in Nat : t = s * Byte /\ t >= 1
  BY <1>1, <1>2
<1>5. TopValue = 2 * t
  <2>1. TopValue = (2 * s) * Byte
    BY <1>3 DEF TopValue
  <2> QED
    BY <1>1, <1>2, <1>4, <2>1
<1>6. PICK u \in Nat : u = t * Byte /\ u >= 2 * t
  BY <1>1, <1>4
<1>7. Word = 2 * u
  BY <1>1, <1>4, <1>5, <1>6 DEF Word
<1> QED
  BY <1>1, <1>4, <1>5, <1>6, <1>7 DEF Word

(***************************************************************************)
(* What is written, as a number: the bytes out, then the byte held back,   *)
(* then the ones behind it.                                                *)
(***************************************************************************)
\* A probability stays a move away from 0 and from certainty; low has no bound
\* here, Room gives it one.
Bytes == 0 .. Byte - 1
Probs == Move - 1 .. ProbTotal - (Move - 1)
Coder == [low : Nat, rng : Nat, cache : Bytes, cacheSize : Nat \ {0}, probs : [Models -> Probs]]

Size(e, o) == Len(o) + e.cacheSize
Digit(e, o, m) == IF m <= Len(o) THEN o[m] ELSE IF m = Len(o) + 1 THEN e.cache ELSE Byte - 1

\* f[m] is the number the first m of them spell.
Spells(f, e, o) ==
  /\ f \in [0 .. Size(e, o) -> Nat] /\ f[0] = 0
  /\ \A m \in 1 .. Size(e, o) : f[m] = f[m - 1] * Byte + Digit(e, o, m)

\* A carry, if there is one, is taken by the byte held back, and there is none
\* as long as nothing is out: r is what may still be added.
Room(e, o, r) ==
  /\ e.low + r <= 2 * Word
  /\ e.cache = Byte - 1 => e.low + r <= Word
  /\ o = <<>> => e.cache = 0 /\ e.low + r <= Word
  /\ o # <<>> => o[1] = 0

\* The encoder stands for num, of any length, with r to spare.
HeldAs(e, o, num, r) ==
  /\ e \in Coder /\ o \in Seq(Bytes) /\ Room(e, o, r)
  /\ \E f : Spells(f, e, o) /\ num = f[Size(e, o)] * Word + e.low

\* low is a carry, a byte and the rest.
LEMMA PartsOfLow ==
  ASSUME NEW low \in Nat, low < 2 * Word
  PROVE  \E c \in 0 .. 1, q \in Bytes, t \in 0 .. TopValue - 1 :
            /\ low = c * Word + q * TopValue + t
            /\ low \div Word = c
            /\ (low \div TopValue) % Byte = q
            /\ (low * Byte) % Word = t * Byte
            /\ (low < (Byte - 1) * TopValue) <=> (c = 0 /\ q < Byte - 1)
            /\ (low >= Word) <=> (c = 1)
<1>w. /\ Byte \in Nat /\ Byte >= 2 /\ TopValue \in Nat /\ TopValue >= 2
      /\ Word \in Nat /\ Word = Byte * TopValue /\ Word = TopValue * Byte
  BY Widths
<1>1. PICK c \in 0 .. 1, x \in 0 .. Word - 1 : low = c * Word + x /\ (low >= Word <=> c = 1)
  <2>1. CASE low < Word
    BY <1>w, <2>1
  <2>2. CASE low >= Word
    <3>1. low = 1 * Word + (low - Word) /\ low - Word \in 0 .. Word - 1
      BY <1>w, <2>2
    <3> QED
      BY <3>1, <2>2
  <2> QED
    BY <1>w, <2>1, <2>2
<1>2. PICK q \in Int, t \in 0 .. TopValue - 1 : x = TopValue * q + t
  <2>1. x \in Int /\ TopValue \in Nat \ {0}
    BY <1>w, <1>1
  <2>2. /\ x \div TopValue \in Int /\ x % TopValue \in 0 .. TopValue - 1
        /\ x = TopValue * (x \div TopValue) + (x % TopValue)
    BY <2>1, Quotient
  <2> QED
    BY <2>2
<1>3. q \in Bytes
  <2>1. q >= 0
    <3>1. q < 0 => TopValue * q <= -TopValue
      BY <1>w
    <3> QED
      BY <1>w, <1>1, <1>2, <3>1
  <2>2. q <= Byte - 1
    <3>1. q >= Byte => TopValue * q >= TopValue * Byte
      BY <1>w, <2>1
    <3> QED
      BY <1>w, <1>1, <1>2, <3>1
  <2> QED
    BY <1>w, <2>1, <2>2 DEF Bytes
<1>4. q \in Nat /\ q <= Byte - 1 /\ t \in Nat /\ t <= TopValue - 1 /\ c \in Nat
  BY <1>w, <1>1, <1>2, <1>3 DEF Bytes
<1>5. low = c * Word + q * TopValue + t
  BY <1>1, <1>2, <1>4, <1>w
<1>6. low \div Word = c
  <2>1. low = Word * c + x
    BY <1>1, <1>4, <1>w
  <2> QED
    BY <1>1, <1>4, <1>w, <2>1, QuotientIs
<1>7. (low \div TopValue) % Byte = q
  <2>1. low = TopValue * (Byte * c + q) + t
    BY <1>5, <1>4, <1>w
  <2>2. Byte * c + q \in Int
    BY <1>4, <1>w
  <2>3. low \div TopValue = Byte * c + q
    BY <1>2, <1>w, <2>1, <2>2, QuotientIs
  <2>4. q \in 0 .. Byte - 1
    BY <1>3 DEF Bytes
  <2>5. (Byte * c + q) % Byte = q
    BY <1>w, <1>4, <2>2, <2>4, QuotientIs
  <2> QED
    BY <2>3, <2>5
<1>8. (low * Byte) % Word = t * Byte
  <2>1. PICK k \in Int : k = Byte * c + q
    BY <1>w, <1>4
  <2>2. low = TopValue * k + t
    BY <1>5, <1>4, <1>w, <2>1
  <2>3. low * Byte = Word * k + t * Byte
    BY <1>w, <1>4, <2>1, <2>2
  <2>4. t * Byte <= (TopValue - 1) * Byte /\ t * Byte >= 0 /\ t * Byte \in Int
    BY <1>w, <1>4
  <2>5. (TopValue - 1) * Byte = Word - Byte
    BY <1>w
  <2>6. t * Byte \in 0 .. Word - 1
    BY <1>w, <2>4, <2>5
  <2>7. low * Byte \in Int
    BY <1>w
  <2>8. PICK a \in Int, r \in 0 .. Word - 1 : a = low * Byte /\ r = t * Byte
    BY <2>6, <2>7
  <2>9. PICK v \in Nat \ {0} : v = Word /\ a = v * k + r
    BY <1>w, <2>3, <2>8
  <2>10. r \in 0 .. v - 1
    BY <2>8, <2>9
  <2>11. a % v = r
    <3>1. Splits(a, v, k, r)
      BY <2>9 DEF Splits
    <3> QED
      BY <2>8, <2>9, <2>10, <3>1, RemainderIs
  <2> QED
    BY <2>8, <2>9, <2>11
<1>9. (low < (Byte - 1) * TopValue) <=> (c = 0 /\ q < Byte - 1)
  <2>1. (Byte - 1) * TopValue = Word - TopValue
    BY <1>w
  <2>2. q < Byte - 1 => q * TopValue <= Word - 2 * TopValue
    <3>1. q < Byte - 1 => q * TopValue <= (Byte - 2) * TopValue
      BY <1>w, <1>4
    <3>2. (Byte - 2) * TopValue = Word - 2 * TopValue
      BY <1>w
    <3> QED
      BY <3>1, <3>2
  <2>3. q = Byte - 1 => q * TopValue = Word - TopValue
    BY <2>1
  <2>4. PICK z \in Nat : z = q * TopValue
    BY <1>w, <1>4
  <2>5. c = 0 => low = z + t
    BY <1>5, <2>4, <1>w, <1>4
  <2>6. c = 1 => low >= Word
    BY <1>1
  <2>7. low < Word - TopValue <=> (c = 0 /\ q < Byte - 1)
    BY <1>w, <1>1, <1>4, <2>2, <2>3, <2>4, <2>5, <2>6
  <2> QED
    BY <2>1, <2>7
<1> QED
  BY <1>1, <1>2, <1>3, <1>5, <1>6, <1>7, <1>8, <1>9

\* A coder's low, byte held back and their number become these.
Became(s, e, low, cache, size) ==
  s.enc = [low |-> low, rng |-> e.rng, cache |-> cache, cacheSize |-> size, probs |-> e.probs]

\* The two cases of shiftLow.
LEMMA ShiftLowOut ==
  ASSUME NEW e, NEW o, e.low < (Byte - 1) * TopValue \/ e.low >= Word,
         NEW s, s = ShiftLow(e, o)
  PROVE  /\ Became(s, e, (e.low * Byte) % Word, (e.low \div TopValue) % Byte, 1)
         /\ s.out = o \o HeldBack(e, e.low \div Word)
<1>1. PICK x, w : /\ x = [low |-> (e.low * Byte) % Word, rng |-> e.rng,
                           cache |-> (e.low \div TopValue) % Byte, cacheSize |-> 1, probs |-> e.probs]
                  /\ w = o \o HeldBack(e, e.low \div Word)
  OBVIOUS
<1>2. s = [enc |-> x, out |-> w]
  BY <1>1, SMTT(30) DEF ShiftLow
<1>3. s.enc = x /\ s.out = w
  BY <1>2
<1> QED
  BY <1>1, <1>3 DEF Became

LEMMA ShiftLowKept ==
  ASSUME NEW e, NEW o, ~(e.low < (Byte - 1) * TopValue \/ e.low >= Word),
         NEW s, s = ShiftLow(e, o)
  PROVE  Became(s, e, (e.low * Byte) % Word, e.cache, e.cacheSize + 1) /\ s.out = o
<1>1. PICK x : x = [low |-> (e.low * Byte) % Word, rng |-> e.rng, cache |-> e.cache,
                    cacheSize |-> e.cacheSize + 1, probs |-> e.probs]
  OBVIOUS
<1>2. s = [enc |-> x, out |-> o]
  BY <1>1, SMTT(30) DEF ShiftLow
<1>3. s.enc = x /\ s.out = o
  BY <1>2
<1> QED
  BY <1>1, <1>3 DEF Became

\* low is a carry c, a byte q and the rest t, as shiftLow sees them.
Top(low, c, q, t) ==
  /\ low \div Word = c /\ (low \div TopValue) % Byte = q /\ (low * Byte) % Word = t * Byte
  /\ (low < (Byte - 1) * TopValue) <=> (c = 0 /\ q < Byte - 1)
  /\ (low >= Word) <=> (c = 1)

\* What shiftLow does to a coder and to what is out, in these terms.
LEMMA ShiftLowIs ==
  ASSUME NEW e \in Coder, NEW o \in Seq(Bytes),
         NEW c \in 0 .. 1, NEW q \in Bytes, NEW t \in 0 .. TopValue - 1,
         Top(e.low, c, q, t), e.cache = Byte - 1 => c = 0,
         NEW s, s = ShiftLow(e, o)
  PROVE  /\ s.enc.low = t * Byte /\ s.enc.rng = e.rng /\ s.enc.probs = e.probs
         /\ s.enc \in Coder /\ s.out \in Seq(Bytes)
         /\ c = 0 /\ q = Byte - 1 =>
              s.enc.cache = e.cache /\ s.enc.cacheSize = e.cacheSize + 1 /\ s.out = o
         /\ c = 1 \/ q < Byte - 1 =>
              /\ s.enc.cache = q /\ s.enc.cacheSize = 1
              /\ Len(s.out) = Len(o) + e.cacheSize
              /\ \A m \in 1 .. Len(o) : s.out[m] = o[m]
              /\ s.out[Len(o) + 1] = e.cache + c
              /\ \A m \in Len(o) + 2 .. Len(o) + e.cacheSize : s.out[m] = IF c = 0 THEN Byte - 1 ELSE 0
<1> DEFINE settled == e.low < (Byte - 1) * TopValue \/ e.low >= Word
           held == HeldBack(e, c)
<1>w. /\ Byte \in Nat /\ Byte >= 2 /\ TopValue \in Nat /\ TopValue >= 2
  BY Widths
<1>e. /\ e.low \in Nat /\ e.rng \in Nat /\ e.cache \in Bytes /\ e.cacheSize \in Nat \ {0}
      /\ e = [low |-> e.low, rng |-> e.rng, cache |-> e.cache, cacheSize |-> e.cacheSize, probs |-> e.probs]
      /\ e.probs \in [Models -> Probs]
  BY DEF Coder
<1>1. settled <=> (c = 1 \/ q < Byte - 1)
  BY DEF Top
<1>2. ASSUME settled PROVE Became(s, e, t * Byte, q, 1) /\ s.out = o \o held
  <2>1. /\ Became(s, e, (e.low * Byte) % Word, (e.low \div TopValue) % Byte, 1)
        /\ s.out = o \o HeldBack(e, e.low \div Word)
    BY <1>2, ShiftLowOut, SMTT(30)
  <2> QED
    BY <2>1 DEF Top
<1>3. ASSUME ~settled PROVE Became(s, e, t * Byte, e.cache, e.cacheSize + 1) /\ s.out = o
  <2>1. Became(s, e, (e.low * Byte) % Word, e.cache, e.cacheSize + 1) /\ s.out = o
    BY <1>3, ShiftLowKept, SMTT(30)
  <2> QED
    BY <2>1 DEF Top
<1> HIDE DEF settled
<1>4. t * Byte \in Nat
  BY <1>w
<1>5. s.enc \in Coder
  <2>1. CASE settled
    BY <1>2, <1>4, <1>e, <2>1 DEF Coder, Became
  <2>2. CASE ~settled
    BY <1>3, <1>4, <1>e, <2>2 DEF Coder, Became
  <2> QED
    BY <2>1, <2>2
<1>6. held \in Seq(Bytes) /\ Len(held) = e.cacheSize
  <2>1. \A i \in 1 .. e.cacheSize : ((IF i = 1 THEN e.cache ELSE Byte - 1) + c) % Byte \in Bytes
    <3> TAKE i \in 1 .. e.cacheSize
    <3>1. PICK x \in Int : x = (IF i = 1 THEN e.cache ELSE Byte - 1) + c
      BY <1>e, <1>w DEF Bytes
    <3>2. x % Byte \in 0 .. Byte - 1
      <4>1. Byte \in Nat \ {0}
        BY <1>w
      <4> QED
        BY <3>1, <4>1, Quotient
    <3> QED
      BY <3>1, <3>2 DEF Bytes
  <2> QED
    BY <2>1, <1>e DEF HeldBack
<1>7. held[1] = e.cache + c
  <2>0. PICK b \in 0 .. Byte - 1 : b = e.cache
    BY <1>e DEF Bytes
  <2>1. e.cache + c \in 0 .. Byte - 1 /\ 1 \in 1 .. e.cacheSize
    <3>1. b + c \in 0 .. Byte - 1
      BY <2>0, <1>w
    <3> QED
      BY <2>0, <3>1, <1>e
  <2>2. PICK x \in 0 .. Byte - 1 : x = e.cache + c
    BY <2>1
  <2>3. x % Byte = x
    BY <1>w
  <2> QED
    BY <2>1, <2>2, <2>3 DEF HeldBack
<1>8. \A i \in 2 .. e.cacheSize : held[i] = IF c = 0 THEN Byte - 1 ELSE 0
  <2> TAKE i \in 2 .. e.cacheSize
  <2>1. held[i] = (Byte - 1 + c) % Byte
    BY <1>e DEF HeldBack
  <2>2. (Byte - 1) % Byte = Byte - 1 /\ Byte % Byte = 0
    BY <1>w
  <2>3. c = 0 => Byte - 1 + c = Byte - 1
    BY <1>w
  <2>4. c # 0 => Byte - 1 + c = Byte
    BY <1>w
  <2> QED
    BY <2>1, <2>2, <2>3, <2>4
<1> HIDE DEF held
<1>9. s.out \in Seq(Bytes)
  <2>1. CASE settled
    <3>1. s.out = o \o held
      BY <1>2, <2>1
    <3> QED
      BY <1>6, <3>1
  <2>2. CASE ~settled
    BY <1>3, <2>2
  <2> QED
    BY <2>1, <2>2
<1>10. c = 0 /\ q = Byte - 1 => s.enc.cache = e.cache /\ s.enc.cacheSize = e.cacheSize + 1 /\ s.out = o
  BY <1>1, <1>3, <1>w DEF Became
<1>11. ASSUME c = 1 \/ q < Byte - 1
       PROVE  /\ s.enc.cache = q /\ s.enc.cacheSize = 1
              /\ Len(s.out) = Len(o) + e.cacheSize
              /\ \A m \in 1 .. Len(o) : s.out[m] = o[m]
              /\ s.out[Len(o) + 1] = e.cache + c
              /\ \A m \in Len(o) + 2 .. Len(o) + e.cacheSize : s.out[m] = IF c = 0 THEN Byte - 1 ELSE 0
  <2>1. s.out = o \o held /\ s.enc.cache = q /\ s.enc.cacheSize = 1
    BY <1>1, <1>2, <1>11 DEF Became
  <2>2. PICK L \in Nat, k \in Nat \ {0} : L = Len(o) /\ k = e.cacheSize
    BY <1>e
  <2>3. Len(s.out) = L + k /\ \A m \in 1 .. L : s.out[m] = o[m]
    <3>1. Len(o \o held) = L + k /\ \A m \in 1 .. L : (o \o held)[m] = o[m]
      BY <2>2, <1>6
    <3> QED
      BY <2>1, <3>1
  <2>4. \A m \in L + 1 .. L + k : s.out[m] = held[m - L]
    BY <2>1, <2>2, <1>6
  <2>5. s.out[L + 1] = e.cache + c
    <3>1. L + 1 \in L + 1 .. L + k /\ (L + 1) - L = 1
      BY <2>2
    <3> QED
      BY <3>1, <2>4, <1>7
  <2>6. ASSUME NEW m \in L + 2 .. L + k PROVE s.out[m] = IF c = 0 THEN Byte - 1 ELSE 0
    <3>1. m \in L + 1 .. L + k /\ m - L \in 2 .. k
      BY <2>2, <2>6
    <3> QED
      BY <3>1, <2>2, <2>4, <1>8
  <2> QED
    BY <2>1, <2>2, <2>3, <2>5, <2>6
<1>12. s.enc.low = t * Byte /\ s.enc.rng = e.rng /\ s.enc.probs = e.probs
  BY <1>2, <1>3 DEF Became
<1> QED
  BY <1>5, <1>9, <1>10, <1>11, <1>12

\* shiftLow keeps the number; it has a byte more, and so has what is to spare.
LEMMA Shift ==
  ASSUME NEW e, NEW o, NEW num \in Nat, NEW r \in 1 .. TopValue, HeldAs(e, o, num, r),
         NEW s, s = ShiftLow(e, o)
  PROVE  /\ HeldAs(s.enc, s.out, num * Byte, r * Byte)
         /\ Size(s.enc, s.out) = Size(e, o) + 1
         /\ s.enc.rng = e.rng /\ s.enc.probs = e.probs
         /\ \E k \in Nat, t \in 0 .. TopValue - 1 : e.low = TopValue * k + t /\ s.enc.low = t * Byte
         /\ e.low = 0 => s.enc.cache = 0 /\ s.enc.cacheSize = 1
<1>w. /\ Byte \in Nat /\ Byte >= 2 /\ TopValue \in Nat /\ TopValue >= 2
      /\ Word \in Nat /\ Word = Byte * TopValue /\ Word = TopValue * Byte
  BY Widths
<1>0. e \in Coder /\ o \in Seq(Bytes) /\ Room(e, o, r)
  BY DEF HeldAs
<1>e. e.low \in Nat /\ e.cache \in Bytes /\ e.cacheSize \in Nat \ {0} /\ Len(o) \in Nat
  BY <1>0 DEF Coder
<1>f. PICK f : Spells(f, e, o) /\ num = f[Size(e, o)] * Word + e.low
  BY DEF HeldAs
<1>1. e.low < 2 * Word
  BY <1>0, <1>e, <1>w DEF Room
<1>2. PICK c \in 0 .. 1, q \in Bytes, t \in 0 .. TopValue - 1 :
        /\ e.low = c * Word + q * TopValue + t
        /\ e.low \div Word = c
        /\ (e.low \div TopValue) % Byte = q
        /\ (e.low * Byte) % Word = t * Byte
        /\ (e.low < (Byte - 1) * TopValue) <=> (c = 0 /\ q < Byte - 1)
        /\ (e.low >= Word) <=> (c = 1)
  <2>1. PICK x \in Nat : x = e.low /\ x < 2 * Word
    BY <1>1, <1>e
  <2> QED
    BY <2>1, PartsOfLow
<1>3. e.cache = Byte - 1 => c = 0
  BY <1>0, <1>2, <1>e, <1>w, SMTT(30) DEF Room
<1>4. /\ s.enc.low = t * Byte /\ s.enc.rng = e.rng /\ s.enc.probs = e.probs
      /\ s.enc \in Coder /\ s.out \in Seq(Bytes)
      /\ c = 0 /\ q = Byte - 1 =>
           s.enc.cache = e.cache /\ s.enc.cacheSize = e.cacheSize + 1 /\ s.out = o
      /\ c = 1 \/ q < Byte - 1 =>
           /\ s.enc.cache = q /\ s.enc.cacheSize = 1
           /\ Len(s.out) = Len(o) + e.cacheSize
           /\ \A m \in 1 .. Len(o) : s.out[m] = o[m]
           /\ s.out[Len(o) + 1] = e.cache + c
           /\ \A m \in Len(o) + 2 .. Len(o) + e.cacheSize : s.out[m] = IF c = 0 THEN Byte - 1 ELSE 0
  <2>1. Top(e.low, c, q, t)
    BY <1>2 DEF Top
  <2> QED
    BY <1>0, <1>3, <2>1, ShiftLowIs
<1>q. q \in Nat /\ q <= Byte - 1 /\ t \in Nat /\ t <= TopValue - 1 /\ c \in Nat
  BY <1>2, <1>w DEF Bytes
<1>c. (c = 0 /\ q = Byte - 1) \/ (c = 1 \/ q < Byte - 1)
  BY <1>q, <1>2, <1>w
<1>5. PICK L \in Nat, k \in Nat \ {0} : L = Len(o) /\ k = e.cacheSize /\ Size(e, o) = L + k
  BY <1>e DEF Size
<1>6. Size(s.enc, s.out) = L + k + 1
  <2>1. CASE c = 0 /\ q = Byte - 1
    BY <1>4, <1>5, <2>1 DEF Size
  <2>2. CASE c = 1 \/ q < Byte - 1
    BY <1>4, <1>5, <2>2 DEF Size
  <2> QED
    BY <1>c, <2>1, <2>2
<1>7. \A m \in 1 .. L : Digit(s.enc, s.out, m) = Digit(e, o, m)
  <2>1. CASE c = 0 /\ q = Byte - 1
    BY <1>4, <1>5, <2>1, SMTT(30) DEF Digit
  <2>2. CASE c = 1 \/ q < Byte - 1
    <3> SUFFICES ASSUME NEW m \in 1 .. L PROVE Digit(s.enc, s.out, m) = Digit(e, o, m)
      OBVIOUS
    <3>1. Len(s.out) = L + k /\ s.out[m] = o[m]
      BY <1>4, <1>5, <2>2
    <3>2. m <= Len(o) /\ m <= Len(s.out)
      BY <3>1, <1>5
    <3> QED
      BY <3>1, <3>2 DEF Digit
  <2> QED
    BY <1>c, <2>1, <2>2
<1>8. Digit(e, o, L + 1) = e.cache /\ Digit(s.enc, s.out, L + 1) = e.cache + c
  <2>1. CASE c = 0 /\ q = Byte - 1
    BY <1>4, <1>5, <1>e, <2>1, SMTT(30) DEF Digit, Bytes
  <2>2. CASE c = 1 \/ q < Byte - 1
    BY <1>4, <1>5, <2>2, SMTT(30) DEF Digit
  <2> QED
    BY <1>c, <2>1, <2>2
<1>9. \A m \in L + 2 .. L + k :
         Digit(e, o, m) = Byte - 1 /\ Digit(s.enc, s.out, m) = IF c = 0 THEN Byte - 1 ELSE 0
  <2>1. CASE c = 0 /\ q = Byte - 1
    BY <1>4, <1>5, <2>1, SMTT(30) DEF Digit
  <2>2. CASE c = 1 \/ q < Byte - 1
    <3> SUFFICES ASSUME NEW m \in L + 2 .. L + k
                 PROVE  /\ Digit(e, o, m) = Byte - 1
                        /\ Digit(s.enc, s.out, m) = IF c = 0 THEN Byte - 1 ELSE 0
      OBVIOUS
    <3>1. Len(s.out) = L + k /\ s.out[m] = IF c = 0 THEN Byte - 1 ELSE 0
      BY <1>4, <1>5, <2>2
    <3>2. ~(m <= Len(o)) /\ m # Len(o) + 1 /\ m <= Len(s.out)
      BY <3>1, <1>5
    <3> QED
      BY <3>1, <3>2 DEF Digit
  <2> QED
    BY <1>c, <2>1, <2>2
<1>10. Digit(s.enc, s.out, L + k + 1) = q
  <2>1. CASE c = 0 /\ q = Byte - 1
    BY <1>4, <1>5, <2>1, SMTT(30) DEF Digit
  <2>2. CASE c = 1 \/ q < Byte - 1
    BY <1>4, <1>5, <2>2, SMTT(30) DEF Digit
  <2> QED
    BY <1>c, <2>1, <2>2
<1> DEFINE g == [m \in 0 .. L + k + 1 |-> IF m <= L THEN f[m] ELSE IF m <= L + k THEN f[m] + c
                                          ELSE (f[L + k] + c) * Byte + q]
<1>11. /\ \A m \in 0 .. L + k : f[m] \in Nat
       /\ f[0] = 0 /\ \A m \in 1 .. L + k : f[m] = f[m - 1] * Byte + Digit(e, o, m)
  BY <1>f, <1>5 DEF Spells
<1>12. g \in [0 .. L + k + 1 -> Nat] /\ g[0] = 0
  <2>1. (f[L + k] + c) * Byte + q \in Nat
    BY <1>11, <1>q, <1>w
  <2> QED
    BY <1>11, <1>q, <2>1
<1>13. ASSUME NEW m \in 1 .. L + k + 1 PROVE g[m] = g[m - 1] * Byte + Digit(s.enc, s.out, m)
  <2>1. CASE m <= L
    <3>1. m \in 1 .. L /\ m \in 1 .. L + k /\ g[m] = f[m] /\ g[m - 1] = f[m - 1]
      BY <2>1
    <3> QED
      BY <3>1, <1>7, <1>11
  <2>2. CASE m = L + 1
    <3>1. m \in 1 .. L + k /\ g[m] = f[m] + c /\ g[m - 1] = f[m - 1]
      BY <2>2
    <3>2. f[m] = f[m - 1] * Byte + e.cache /\ f[m - 1] \in Nat
      BY <3>1, <2>2, <1>8, <1>11
    <3>3. PICK z \in Int, b \in Int : z = f[m - 1] * Byte /\ b = e.cache
      BY <3>2, <1>w, <1>e DEF Bytes
    <3> QED
      BY <3>1, <3>2, <3>3, <2>2, <1>8, <1>q, SMTT(30)
  <2>3. CASE m \in L + 2 .. L + k
    <3>1. m \in 1 .. L + k /\ g[m] = f[m] + c /\ g[m - 1] = f[m - 1] + c /\ m - 1 \in 0 .. L + k
      BY <2>3
    <3>2. PICK x \in Nat : x = f[m - 1]
      BY <3>1, <1>11
    <3>3. f[m] = x * Byte + (Byte - 1)
      BY <3>1, <3>2, <2>3, <1>9, <1>11
    <3>4. Digit(s.enc, s.out, m) = IF c = 0 THEN Byte - 1 ELSE 0
      BY <2>3, <1>9
    <3>5. CASE c = 0
      BY <3>1, <3>2, <3>3, <3>4, <3>5, <1>w
    <3>6. CASE c = 1
      <4>1. PICK z \in Int : z = x * Byte
        BY <1>w
      <4>2. (x + 1) * Byte = z + Byte
        BY <1>w, <4>1
      <4>3. g[m] = z + (Byte - 1) + 1 /\ g[m - 1] = x + 1
        BY <3>1, <3>2, <3>3, <3>6, <4>1
      <4> QED
        BY <3>4, <3>6, <4>2, <4>3, <1>w, SMTT(30)
    <3> QED
      BY <3>5, <3>6, <1>2
  <2>4. CASE m = L + k + 1
    <3>1. m - 1 = L + k /\ g[m - 1] = f[L + k] + c /\ g[m] = (f[L + k] + c) * Byte + q
      BY <2>4
    <3> QED
      BY <3>1, <2>4, <1>10
  <2>5. m <= L \/ m = L + 1 \/ m \in L + 2 .. L + k \/ m = L + k + 1
    OBVIOUS
  <2> QED
    BY <2>1, <2>2, <2>3, <2>4, <2>5
<1>14. g[L + k + 1] = (f[L + k] + c) * Byte + q
  OBVIOUS
<1> HIDE DEF g
<1>15. Spells(g, s.enc, s.out)
  BY <1>6, <1>12, <1>13 DEF Spells
<1>16. num * Byte = g[Size(s.enc, s.out)] * Word + s.enc.low
  <2>1. PICK x \in Nat : x = f[L + k]
    BY <1>11
  <2>2. num = x * Word + (c * Word + q * TopValue + t)
    BY <1>f, <1>5, <1>2, <2>1
  <2>3. PICK d \in Nat : d = (x + c) * Byte
    BY <1>q, <1>w, <2>1
  <2>4. num * Byte = d * Word + q * Word + t * Byte
    BY <1>q, <1>w, <2>1, <2>2, <2>3
  <2>5. (d + q) * Word = d * Word + q * Word
    BY <1>q, <1>w, <2>3
  <2>6. g[L + k + 1] = d + q
    BY <1>14, <2>1, <2>3
  <2> QED
    BY <2>4, <2>5, <2>6, <1>4, <1>6
<1>17. t * Byte + r * Byte <= 2 * Word /\ r * Byte <= Word /\ t * Byte <= Word - Byte
  <2>1. t * Byte <= (TopValue - 1) * Byte
    BY <1>q, <1>w
  <2>2. r * Byte <= TopValue * Byte
    BY <1>w
  <2>3. (TopValue - 1) * Byte = Word - Byte
    BY <1>w
  <2> QED
    BY <1>q, <1>w, <2>1, <2>2, <2>3
<1>18. (q = Byte - 1 /\ q * TopValue + t + r <= Word) => t * Byte + r * Byte <= Word
  <2>1. q = Byte - 1 => q * TopValue = Word - TopValue
    BY <1>w
  <2>2. t + r <= TopValue => (t + r) * Byte <= TopValue * Byte
    BY <1>w, <1>q
  <2>3. (t + r) * Byte = t * Byte + r * Byte
    BY <1>w, <1>q
  <2>4. PICK z \in Int : z = q * TopValue
    BY <1>w, <1>q
  <2> QED
    BY <1>w, <1>q, <2>1, <2>2, <2>3, <2>4
<1>19. Room(s.enc, s.out, r * Byte)
  <2>1. PICK z \in Int : z = q * TopValue
    BY <1>w, <1>q
  <2>2. e.low = c * Word + z + t
    BY <1>2, <2>1
  <2>3. c = 0 => e.low = z + t
    BY <2>2, <1>w, <1>q, <2>1
  <2>4. c = 1 => e.low = Word + z + t
    BY <2>2, <1>w, <1>q, <2>1
  <2>5. e.low + r <= 2 * Word /\ (e.cache = Byte - 1 => e.low + r <= Word)
    BY <1>0 DEF Room
  <2>6. s.enc.cache = Byte - 1 => t * Byte + r * Byte <= Word
    <3>1. CASE c = 0 /\ q = Byte - 1
      BY <3>1, <2>1, <2>3, <2>5, <1>4, <1>18
    <3>2. CASE c = 1 /\ q = Byte - 1
      <4>1. z + t + r <= Word
        BY <3>2, <2>1, <2>4, <2>5, <1>w, <1>q
      <4> QED
        BY <3>2, <4>1, <2>1, <1>18
    <3>3. CASE q < Byte - 1
      BY <3>3, <1>4, <1>q, <1>w
    <3> QED
      BY <3>1, <3>2, <3>3, <1>q, <1>2, <1>w
  <2>7. s.out = <<>> => s.enc.cache = 0 /\ t * Byte + r * Byte <= Word
    <3> SUFFICES ASSUME s.out = <<>> PROVE s.enc.cache = 0 /\ t * Byte + r * Byte <= Word
      OBVIOUS
    <3>1. c = 0 /\ q = Byte - 1 /\ o = <<>>
      <4>1. Len(s.out) = 0
        OBVIOUS
      <4>2. ~(c = 1 \/ q < Byte - 1)
        BY <4>1, <1>4, <1>5
      <4> QED
        BY <4>2, <1>4, <1>c
    <3>2. e.cache = 0 /\ e.low + r <= Word
      BY <3>1, <1>0 DEF Room
    <3> QED
      BY <3>1, <3>2, <2>1, <2>3, <1>4, <1>18
  <2>8. s.out # <<>> => s.out[1] = 0
    <3>1. CASE c = 0 /\ q = Byte - 1
      BY <3>1, <1>4, <1>0 DEF Room
    <3>2. CASE (c = 1 \/ q < Byte - 1) /\ o # <<>>
      <4>1. 1 \in 1 .. Len(o) /\ o[1] = 0
        BY <3>2, <1>0 DEF Room
      <4> QED
        BY <3>2, <4>1, <1>4
    <3>3. CASE (c = 1 \/ q < Byte - 1) /\ o = <<>>
      <4>1. e.cache = 0 /\ e.low + r <= Word /\ Len(o) = 0
        BY <3>3, <1>0 DEF Room
      <4>2. c = 0
        BY <4>1, <1>2, <1>e, <1>w
      <4> QED
        BY <3>3, <4>1, <4>2, <1>4
    <3> QED
      BY <3>1, <3>2, <3>3, <1>c
  <2> QED
    BY <2>6, <2>7, <2>8, <1>4, <1>17 DEF Room
<1>20. HeldAs(s.enc, s.out, num * Byte, r * Byte)
  BY <1>4, <1>15, <1>16, <1>19 DEF HeldAs
<1>21. PICK j \in Nat : j = Byte * c + q
  BY <1>w, <1>q
<1>22. e.low = TopValue * j + t
  BY <1>21, <1>2, <1>q, <1>w
<1>23. e.low = 0 => s.enc.cache = 0 /\ s.enc.cacheSize = 1
  <2> SUFFICES ASSUME e.low = 0 PROVE s.enc.cache = 0 /\ s.enc.cacheSize = 1
    OBVIOUS
  <2>1. q = 0
    <3>1. q >= 1 => q * TopValue >= TopValue
      BY <1>w, <1>q
    <3>2. PICK z \in Int : z = q * TopValue
      BY <1>w, <1>q
    <3>3. c * Word >= 0 /\ c * Word \in Int
      BY <1>w, <1>q
    <3> QED
      BY <3>1, <3>2, <3>3, <1>2, <1>q, <1>w
  <2> QED
    BY <2>1, <1>4, <1>w
<1> QED
  BY <1>4, <1>5, <1>6, <1>20, <1>22, <1>23

(***************************************************************************)
(* The flush.                                                              *)
(***************************************************************************)

\* The bytes o are the digits of num, which f spells.
Written(f, o, num) ==
  /\ o \in Seq(Bytes) /\ o # <<>> /\ o[1] = 0
  /\ f \in [0 .. Len(o) -> Nat] /\ f[0] = 0 /\ f[Len(o)] = num
  /\ \A m \in 1 .. Len(o) : f[m] = f[m - 1] * Byte + o[m]

\* What is left of a multiple of m after whole multiples of m are taken away.
IsMultiple(t, m) == \E v \in Nat : t = m * v
LeftOver(m, d, u, k, t) == m * u = (m * d) * k + t

\* A multiple of m, less whole multiples of m, is one still.
LEMMA Multiple ==
  ASSUME NEW m \in Nat \ {0}, NEW d \in Nat, NEW u \in Nat, NEW k \in Nat, NEW t \in Nat,
         LeftOver(m, d, u, k, t)
  PROVE  IsMultiple(t, m)
<1>1. PICK v \in Int : v = u - d * k
  OBVIOUS
<1>2. t = m * v
  <2>1. m * v = m * u - m * (d * k)
    BY <1>1
  <2>2. m * (d * k) = (m * d) * k /\ m * u = (m * d) * k + t
    BY DEF LeftOver
  <2> QED
    BY <2>1, <2>2
<1>3. v >= 0
  <2>1. v <= -1 => m * v <= -m
    BY <1>1
  <2> QED
    BY <1>1, <1>2, <2>1
<1>4. v \in Nat
  BY <1>1, <1>3
<1> QED
  BY <1>2, <1>4 DEF IsMultiple

\* A factor that is not 0 cancels.
LEMMA Cancel ==
  ASSUME NEW a \in Int, NEW b \in Int, NEW k \in Nat \ {0}, a * k = b * k
  PROVE  a = b
<1>1. (a - b) * k = 0
  OBVIOUS
<1>2. a - b >= 1 => (a - b) * k >= k
  OBVIOUS
<1>3. a - b <= -1 => (a - b) * k <= -k
  OBVIOUS
<1>4. PICK d \in Int, x \in Int : d = a - b /\ x = d * k
  OBVIOUS
<1> QED
  BY <1>1, <1>2, <1>3, <1>4

\* What leaves room for r leaves room for less.
LEMMA LessRoom ==
  ASSUME NEW e, NEW o, NEW num, NEW r \in Nat, HeldAs(e, o, num, r), r >= 1
  PROVE  HeldAs(e, o, num, 1)
<1>1. e.low \in Nat /\ Word \in Nat
  BY Widths DEF HeldAs, Coder
<1>2. Room(e, o, 1)
  BY <1>1 DEF HeldAs, Room
<1> QED
  BY <1>2 DEF HeldAs

\* A byte shifted out: s is what e and o become, for the number n.
OneMore(e, o, s, n) ==
  /\ HeldAs(s.enc, s.out, n, 1) /\ n \in Nat
  /\ Size(s.enc, s.out) = Size(e, o) + 1 /\ Size(e, o) \in Nat
  /\ s.enc.probs = e.probs
  /\ \E k \in Nat, t \in 0 .. TopValue - 1 : e.low = TopValue * k + t /\ s.enc.low = t * Byte
  /\ e.low = 0 => s.enc.cache = 0 /\ s.enc.cacheSize = 1

\* ShiftLow is such a step; its low ends in zeros once more.
LEMMA ShiftOne ==
  ASSUME NEW e, NEW o, NEW num \in Nat, HeldAs(e, o, num, 1), NEW s, s = ShiftLow(e, o),
         NEW n, n = num * Byte
  PROVE  OneMore(e, o, s, n)
<1>w. Byte \in Nat /\ Byte >= 2 /\ TopValue \in Nat /\ TopValue >= 2
  BY Widths
<1>1. 1 \in 1 .. TopValue /\ 1 * Byte \in Nat /\ 1 * Byte >= 1 /\ num * Byte \in Nat
  BY <1>w
<1>2. /\ HeldAs(s.enc, s.out, num * Byte, 1 * Byte)
      /\ Size(s.enc, s.out) = Size(e, o) + 1
      /\ s.enc.rng = e.rng /\ s.enc.probs = e.probs
      /\ \E k \in Nat, t \in 0 .. TopValue - 1 : e.low = TopValue * k + t /\ s.enc.low = t * Byte
      /\ e.low = 0 => s.enc.cache = 0 /\ s.enc.cacheSize = 1
  BY <1>1, Shift
<1>3. HeldAs(s.enc, s.out, num * Byte, 1)
  BY <1>1, <1>2, LessRoom
<1>4. Size(e, o) \in Nat
  BY DEF HeldAs, Coder, Size
<1> QED
  BY <1>1, <1>2, <1>3, <1>4 DEF OneMore

\* After five bytes what is out is the number.
LEMMA Flushed ==
  ASSUME NEW e, NEW o, NEW num \in Nat, HeldAs(e, o, num, 1), NEW s, s = Shifts(e, o)
  PROVE  /\ \E f : Written(f, s.out, num)
         /\ Len(s.out) = Size(e, o) + 4
         /\ s.enc.probs = e.probs
<1>w. /\ Byte \in Nat /\ Byte >= 2 /\ TopValue \in Nat /\ TopValue >= 2
      /\ Word \in Nat /\ Word = Byte * TopValue
  BY Widths
<1>0. PICK s1, s2, s3, s4 : /\ s1 = ShiftLow(e, o) /\ s2 = ShiftMore(s1)
                            /\ s3 = ShiftMore(s2) /\ s4 = ShiftMore(s3)
  OBVIOUS
<1>1. /\ s1 = ShiftLow(e, o) /\ s2 = ShiftLow(s1.enc, s1.out)
      /\ s3 = ShiftLow(s2.enc, s2.out) /\ s4 = ShiftLow(s3.enc, s3.out)
      /\ s = ShiftLow(s4.enc, s4.out)
  <2>1. s = ShiftMore(s4)
    BY <1>0 DEF Shifts
  <2> QED
    BY <1>0, <2>1 DEF ShiftMore
<1>2. PICK n1, n2, n3, n4, n5 : /\ n1 = num * Byte /\ n2 = n1 * Byte /\ n3 = n2 * Byte
                                /\ n4 = n3 * Byte /\ n5 = n4 * Byte
  OBVIOUS
<1>3. /\ HeldAs(s1.enc, s1.out, n1, 1) /\ n1 \in Nat
      /\ Size(s1.enc, s1.out) = Size(e, o) + 1 /\ Size(e, o) \in Nat /\ s1.enc.probs = e.probs
      /\ \E k \in Nat, t \in 0 .. TopValue - 1 : e.low = TopValue * k + t /\ s1.enc.low = t * Byte
  <2>1. OneMore(e, o, s1, n1)
    BY <1>1, <1>2, ShiftOne
  <2> QED
    BY <2>1 DEF OneMore
<1>4. /\ HeldAs(s2.enc, s2.out, n2, 1) /\ n2 \in Nat
      /\ Size(s2.enc, s2.out) = Size(s1.enc, s1.out) + 1 /\ s2.enc.probs = s1.enc.probs
      /\ \E k \in Nat, t \in 0 .. TopValue - 1 : s1.enc.low = TopValue * k + t /\ s2.enc.low = t * Byte
  <2>1. OneMore(s1.enc, s1.out, s2, n2)
    BY <1>1, <1>2, <1>3, ShiftOne
  <2> QED
    BY <2>1 DEF OneMore
<1>5. /\ HeldAs(s3.enc, s3.out, n3, 1) /\ n3 \in Nat
      /\ Size(s3.enc, s3.out) = Size(s2.enc, s2.out) + 1 /\ s3.enc.probs = s2.enc.probs
      /\ \E k \in Nat, t \in 0 .. TopValue - 1 : s2.enc.low = TopValue * k + t /\ s3.enc.low = t * Byte
  <2>1. OneMore(s2.enc, s2.out, s3, n3)
    BY <1>1, <1>2, <1>4, ShiftOne
  <2> QED
    BY <2>1 DEF OneMore
<1>6. /\ HeldAs(s4.enc, s4.out, n4, 1) /\ n4 \in Nat
      /\ Size(s4.enc, s4.out) = Size(s3.enc, s3.out) + 1 /\ s4.enc.probs = s3.enc.probs
      /\ \E k \in Nat, t \in 0 .. TopValue - 1 : s3.enc.low = TopValue * k + t /\ s4.enc.low = t * Byte
  <2>1. OneMore(s3.enc, s3.out, s4, n4)
    BY <1>1, <1>2, <1>5, ShiftOne
  <2> QED
    BY <2>1 DEF OneMore
<1>7. /\ HeldAs(s.enc, s.out, n5, 1) /\ n5 \in Nat
      /\ Size(s.enc, s.out) = Size(s4.enc, s4.out) + 1 /\ s.enc.probs = s4.enc.probs
      /\ \E k \in Nat, t \in 0 .. TopValue - 1 : s4.enc.low = TopValue * k + t /\ s.enc.low = t * Byte
      /\ s4.enc.low = 0 => s.enc.cache = 0 /\ s.enc.cacheSize = 1
  <2>1. OneMore(s4.enc, s4.out, s, n5)
    BY <1>1, <1>2, <1>6, ShiftOne
  <2> QED
    BY <2>1 DEF OneMore
<1>8. PICK B2 \in Nat \ {0} : /\ B2 = Byte * Byte /\ TopValue = Byte * B2 /\ TopValue = B2 * Byte
                              /\ TopValue = TopValue * 1
  <2>1. Byte * Byte \in Nat \ {0}
    BY <1>w
  <2>2. Byte * (Byte * Byte) = Byte * Byte * Byte
    BY <1>w
  <2> QED
    BY <2>1, <2>2, <1>w DEF TopValue
<1>9. s4.enc.low = 0
  <2>1. PICK t \in Nat : s1.enc.low = Byte * t
    BY <1>3, <1>w
  <2>2. PICK u \in Nat : s2.enc.low = B2 * u
    <3>1. PICK k \in Nat, x \in 0 .. TopValue - 1 : s1.enc.low = TopValue * k + x /\ s2.enc.low = x * Byte
      BY <1>4
    <3>2. x \in Nat /\ Byte \in Nat \ {0} /\ Byte * t = (Byte * B2) * k + x
      BY <2>1, <3>1, <1>8, <1>w
    <3>3. PICK v \in Nat : x = Byte * v
      <4>1. LeftOver(Byte, B2, t, k, x) /\ B2 \in Nat
        BY <3>2 DEF LeftOver
      <4>2. IsMultiple(x, Byte)
        BY <3>2, <4>1, Multiple
      <4> QED
        BY <4>2 DEF IsMultiple
    <3>4. x * Byte = B2 * v
      BY <3>1, <3>3, <1>8, <1>w
    <3> QED
      BY <3>1, <3>4
  <2>3. PICK v \in Nat : s3.enc.low = TopValue * v
    <3>1. PICK k \in Nat, x \in 0 .. TopValue - 1 : s2.enc.low = TopValue * k + x /\ s3.enc.low = x * Byte
      BY <1>5
    <3>2. x \in Nat /\ B2 * u = (B2 * Byte) * k + x
      BY <2>2, <3>1, <1>8, <1>w
    <3>3. PICK y \in Nat : x = B2 * y
      <4>1. LeftOver(B2, Byte, u, k, x) /\ Byte \in Nat
        BY <3>2, <1>w DEF LeftOver
      <4>2. IsMultiple(x, B2)
        BY <3>2, <4>1, Multiple
      <4> QED
        BY <4>2 DEF IsMultiple
    <3>4. x * Byte = TopValue * y
      BY <3>1, <3>3, <1>8, <1>w
    <3> QED
      BY <3>1, <3>4
  <2>4. PICK k \in Nat, x \in 0 .. TopValue - 1 : s3.enc.low = TopValue * k + x /\ s4.enc.low = x * Byte
    BY <1>6
  <2>5. x \in Nat /\ TopValue \in Nat \ {0} /\ TopValue * v = (TopValue * 1) * k + x
    BY <2>3, <2>4, <1>8, <1>w
  <2>6. PICK y \in Nat : x = TopValue * y
    <3>1. LeftOver(TopValue, 1, v, k, x)
      BY <2>5 DEF LeftOver
    <3>2. IsMultiple(x, TopValue)
      BY <2>5, <3>1, Multiple
    <3> QED
      BY <3>2 DEF IsMultiple
  <2>7. y = 0
    <3>1. y >= 1 => TopValue * y >= TopValue
      BY <1>w
    <3> QED
      BY <3>1, <2>4, <2>6, <1>w
  <2> QED
    BY <2>4, <2>6, <2>7, <1>w
<1>10. s.enc.low = 0 /\ s.enc.cache = 0 /\ s.enc.cacheSize = 1
  <2>1. PICK k \in Nat, t \in 0 .. TopValue - 1 : 0 = TopValue * k + t /\ s.enc.low = t * Byte
    BY <1>7, <1>9
  <2>2. t = 0
    <3>1. TopValue * k >= 0
      BY <1>w
    <3> QED
      BY <2>1, <3>1, <1>w
  <2> QED
    BY <2>1, <2>2, <1>7, <1>9, <1>w
<1>11. PICK L \in Nat : /\ L = Len(s.out) /\ L = Size(e, o) + 4 /\ L >= 4 /\ Size(s.enc, s.out) = L + 1
  <2>1. s.out \in Seq(Bytes)
    BY <1>7 DEF HeldAs
  <2>2. Size(s.enc, s.out) = Len(s.out) + 1 /\ Len(s.out) \in Nat
    BY <2>1, <1>10 DEF Size
  <2>3. Size(s.enc, s.out) = Size(e, o) + 5
    BY <1>3, <1>4, <1>5, <1>6, <1>7
  <2> QED
    BY <1>3, <2>2, <2>3
<1>12. PICK f : Spells(f, s.enc, s.out) /\ n5 = f[L + 1] * Word + 0
  BY <1>7, <1>10, <1>11 DEF HeldAs
<1>13. /\ s.out \in Seq(Bytes) /\ s.out # <<>> /\ s.out[1] = 0
       /\ f \in [0 .. L + 1 -> Nat] /\ f[0] = 0
       /\ \A m \in 1 .. L + 1 : f[m] = f[m - 1] * Byte + Digit(s.enc, s.out, m)
  <2>1. s.out \in Seq(Bytes) /\ Room(s.enc, s.out, 1)
    BY <1>7 DEF HeldAs
  <2>2. s.out # <<>>
    <3> SUFFICES ASSUME s.out = <<>> PROVE FALSE
      OBVIOUS
    <3>1. Len(s.out) = 0
      OBVIOUS
    <3> QED
      BY <3>1, <1>11
  <2> QED
    BY <2>1, <2>2, <1>11, <1>12 DEF Room, Spells
<1>14. \A m \in 1 .. L : f[m] = f[m - 1] * Byte + s.out[m]
  BY <1>11, <1>13 DEF Digit
<1>15. PICK y \in Nat : y = f[L] /\ f[L + 1] = y * Byte + 0
  <2>1. L + 1 \in 1 .. L + 1 /\ (L + 1) - 1 = L /\ L \in 0 .. L + 1
    BY <1>11
  <2>2. Digit(s.enc, s.out, L + 1) = 0
    BY <1>10, <1>11 DEF Digit
  <2>3. f[L + 1] = f[(L + 1) - 1] * Byte + Digit(s.enc, s.out, L + 1)
    BY <1>13, <2>1
  <2> QED
    BY <1>13, <2>1, <2>2, <2>3
<1>16. y = num
  <2>1. PICK Q \in Nat \ {0} : Q = Byte * Word
    BY <1>w
  <2>2. n5 = num * Q
    <3>1. n2 = num * B2
      BY <1>2, <1>8, <1>w
    <3>2. n3 = num * TopValue
      BY <1>2, <1>8, <1>w, <3>1
    <3>3. n4 = num * Word
      BY <1>2, <1>w, <3>2
    <3> QED
      BY <1>2, <1>w, <3>3, <2>1
  <2>3. n5 = y * Q
    <3>1. f[L + 1] = y * Byte
      BY <1>15, <1>w
    <3>2. n5 = (y * Byte) * Word
      BY <1>12, <1>w, <3>1
    <3> QED
      BY <2>1, <3>2, <1>w
  <2> QED
    BY <2>1, <2>2, <2>3, Cancel
<1> DEFINE h == [m \in 0 .. L |-> f[m]]
<1>17. /\ h \in [0 .. L -> Nat] /\ h[0] = 0 /\ h[L] = num
       /\ \A m \in 1 .. L : h[m] = h[m - 1] * Byte + s.out[m]
  <2>1. \A m \in 0 .. L : f[m] \in Nat /\ h[m] = f[m]
    <3> TAKE m \in 0 .. L
    <3>1. m \in 0 .. L + 1
      BY <1>11
    <3>2. f[m] \in Nat
      BY <3>1, <1>13
    <3> QED
      BY <3>2
  <2>2. h \in [0 .. L -> Nat] /\ 0 \in 0 .. L /\ L \in 0 .. L
    BY <2>1, <1>11
  <2>3. \A m \in 1 .. L : h[m] = f[m] /\ h[m - 1] = f[m - 1]
    BY <2>1, <1>11
  <2> QED
    BY <2>1, <2>2, <2>3, <1>13, <1>14, <1>15, <1>16
<1> HIDE DEF h
<1>18. Written(h, s.out, num)
  BY <1>11, <1>13, <1>17 DEF Written
<1>19. s.enc.probs = e.probs
  BY <1>3, <1>4, <1>5, <1>6, <1>7
<1> QED
  BY <1>11, <1>18, <1>19

(***************************************************************************)
(* The stages both coders go through: the number so far, how much of it is *)
(* still open, its bytes and the models.                                   *)
(***************************************************************************)
Decisions == [model : Models \cup {Direct}, bit : 0 .. 1]
Stage == [num : Nat, rng : TopValue .. Word - 1, n : Nat \ {0}, probs : [Models -> Probs]]

FirstStage == [num |-> 0, rng |-> Word - 1, n |-> 1, probs |-> Untouched]

\* What is cut off below the part that stands for the bit.
Below(s, model, bit) == IF bit = 0 THEN 0 ELSE Cut(s, model)
Open(s, model, bit) == Part(s.rng, Cut(s, model), model, bit)

\* The stage a decision leads to: its part of the range, a byte longer if short.
NextStage(s, model, bit) ==
  LET p == Open(s, model, bit)
      x == s.num + Below(s, model, bit)
  IN  IF p < TopValue
      THEN [num |-> x * Byte, rng |-> p * Byte, n |-> s.n + 1, probs |-> Moved(s.probs, model, bit)]
      ELSE [num |-> x, rng |-> p, n |-> s.n, probs |-> Moved(s.probs, model, bit)]

\* A probability never comes so near to 0 or to certainty that a range is lost.
LEMMA AdaptedProb ==
  ASSUME NEW p \in Probs, NEW bit \in 0 .. 1
  PROVE  Adapted(p, bit) \in Probs
<1>w. Move \in Nat /\ Move >= 2 /\ ProbTotal \in Nat /\ Move <= ProbTotal \div 2
  BY WidthsAssumption
<1>1. ASSUME NEW x \in Probs PROVE x - (x \div Move) \in Probs
  <2>1. x \in Nat /\ x >= Move - 1 /\ x <= ProbTotal - (Move - 1) /\ Move \in Nat \ {0}
    BY <1>w DEF Probs
  <2>2. PICK q \in Int, r \in 0 .. Move - 1 : q = x \div Move /\ r = x % Move /\ x = Move * q + r
    <3>1. x \in Int
      BY <2>1
    <3>2. x \div Move \in Int /\ x % Move \in 0 .. Move - 1 /\ x = Move * (x \div Move) + (x % Move)
      BY <2>1, <3>1, Quotient
    <3> QED
      BY <3>2
  <2>3. q >= 0
    <3>1. q <= -1 => Move * q <= -Move
      BY <1>w
    <3> QED
      BY <3>1, <2>1, <2>2, <1>w
  <2>4. PICK z \in Int : z = (Move - 1) * q /\ x = z + q + r
    <3>1. Move * q = (Move - 1) * q + q
      BY <1>w
    <3> QED
      BY <3>1, <2>2, <1>w
  <2>5. q >= 1 => z >= Move - 1
    BY <1>w, <2>4
  <2>6. x - q >= Move - 1
    BY <2>1, <2>2, <2>3, <2>4, <2>5, <1>w
  <2> QED
    BY <2>1, <2>2, <2>3, <2>6, <1>w DEF Probs
<1>2. PICK y \in Probs : y = ProbTotal - p
  BY <1>w DEF Probs
<1>3. y - (y \div Move) \in Probs /\ p - (p \div Move) \in Probs
  BY <1>1, <1>2
<1>4. PICK d \in Int : d = y \div Move
  BY <1>2, <1>w DEF Probs
<1>5. p + d \in Probs
  BY <1>2, <1>3, <1>4, <1>w DEF Probs
<1> QED
  BY <1>2, <1>3, <1>4, <1>5 DEF Adapted, Likelier, Unlikelier

\* Either part of a range is enough of it for one shift to restore it.
LEMMA CutIs ==
  ASSUME NEW s, s.rng \in TopValue .. Word - 1, s.probs \in [Models -> Probs],
         NEW model \in Models \cup {Direct}, NEW bit \in 0 .. 1,
         NEW b, b = Cut(s, model), NEW p, p = Open(s, model, bit)
  PROVE  /\ b \in Nat /\ b >= 1 /\ b < s.rng
         /\ p \in Nat /\ p >= 1 /\ p <= s.rng /\ p * Byte >= TopValue
         /\ Below(s, model, bit) + p <= s.rng /\ Below(s, model, bit) \in Nat
         /\ bit = 0 => p = b
         /\ model = Direct => p = b /\ 2 * b <= s.rng
<1>w. /\ Byte \in Nat /\ Byte >= 2 /\ TopValue \in Nat /\ TopValue >= 2 /\ TopValue % 2 = 0 /\ Word \in Nat
      /\ Move \in Nat /\ Move >= 2 /\ ProbTotal \in Nat /\ ProbTotal >= 1 /\ Move <= ProbTotal \div 2
      /\ (Move - 1) * Byte >= ProbTotal /\ TopValue % ProbTotal = 0
  BY Widths, WidthsAssumption
<1>r. PICK r \in Nat : r = s.rng /\ r >= TopValue /\ r <= Word - 1
  BY <1>w
<1>1. CASE model = Direct
  <2>1. b = r \div 2 /\ p = b
    BY <1>1, <1>r DEF Cut, Open, Part
  <2>2. b \in Nat /\ b >= 1 /\ 2 * b <= r /\ 2 * b >= TopValue
    BY <2>1, <1>r, <1>w
  <2>3. b * Byte >= 2 * b
    BY <2>2, <1>w
  <2>4. b * Byte \in Nat
    BY <2>2, <1>w
  <2> QED
    BY <2>1, <2>2, <2>3, <2>4, <1>r, <1>w, <1>1 DEF Below, Open, Part
<1>2. CASE model # Direct
  <2>1. PICK x \in Nat : /\ x = s.probs[model] /\ x >= Move - 1 /\ x <= ProbTotal - (Move - 1)
                         /\ ProbTotal - x \in Nat /\ ProbTotal - x >= Move - 1
    <3>1. s.probs[model] \in Probs
      BY <1>2
    <3> QED
      BY <3>1, <1>w DEF Probs
  <2>2. PICK k \in Nat : TopValue = ProbTotal * k /\ k >= 1
    <3>1. ProbTotal \in Nat \ {0} /\ TopValue \in Int
      BY <1>w
    <3>2. PICK k \in Int, j \in 0 .. ProbTotal - 1 : TopValue = ProbTotal * k + j /\ j = TopValue % ProbTotal
      BY <3>1, Quotient
    <3>3. TopValue = ProbTotal * k
      BY <3>2, <1>w
    <3>4. k <= 0 => ProbTotal * k <= 0
      BY <1>w
    <3>5. k >= 1
      <4>1. PICK z \in Int : z = ProbTotal * k
        BY <1>w
      <4> QED
        BY <3>3, <3>4, <4>1, <1>w
    <3> QED
      BY <3>3, <3>5
  <2>3. PICK q \in Int, j \in 0 .. ProbTotal - 1 : q = r \div ProbTotal /\ r = ProbTotal * q + j
    <3>1. ProbTotal \in Nat \ {0} /\ r \in Int
      BY <1>w
    <3> QED
      BY <3>1, Quotient
  <2>4. q >= k
    <3>1. q <= k - 1 => ProbTotal * q <= ProbTotal * (k - 1)
      BY <1>w
    <3>2. ProbTotal * (k - 1) = TopValue - ProbTotal
      BY <1>w, <2>2
    <3>3. PICK z \in Int : z = ProbTotal * q
      BY <1>w
    <3> QED
      BY <3>1, <3>2, <3>3, <2>2, <2>3, <1>r, <1>w
  <2>q. q \in Nat /\ q >= 1
    BY <2>4, <2>2
  <2>5. \A y \in Nat : y >= Move - 1 => q * y \in Nat /\ q * y >= 1 /\ (q * y) * Byte >= TopValue
    <3> TAKE y \in Nat
    <3> SUFFICES ASSUME y >= Move - 1
                 PROVE  q * y \in Nat /\ q * y >= 1 /\ (q * y) * Byte >= TopValue
      OBVIOUS
    <3>1. y >= 1 /\ q * y \in Nat /\ q * y >= 1
      BY <2>q, <1>w
    <3>2. y * Byte >= (Move - 1) * Byte
      BY <1>w
    <3>3. PICK z \in Nat : z = y * Byte /\ z >= ProbTotal
      BY <3>2, <1>w
    <3>4. q * z >= q * ProbTotal
      BY <3>3, <2>q, <1>w
    <3>5. q * ProbTotal >= k * ProbTotal
      BY <2>4, <2>2, <2>q, <1>w
    <3>6. (q * y) * Byte = q * z
      BY <3>3, <2>q, <1>w
    <3>7. PICK u \in Int, v \in Int : u = q * z /\ v = q * ProbTotal
      BY <3>3, <2>q, <1>w
    <3> QED
      BY <3>1, <3>4, <3>5, <3>6, <3>7, <2>2, <1>w
  <2>6. b = q * x
    BY <1>2, <1>r, <2>1, <2>3 DEF Cut, Bound
  <2>7. r - b = q * (ProbTotal - x) + j
    <3>1. q * (ProbTotal - x) = ProbTotal * q - q * x
      BY <2>q, <2>1, <1>w
    <3> QED
      BY <3>1, <2>3, <2>6, <2>1, <2>q, <1>w
  <2>8. b \in Nat /\ b >= 1 /\ b * Byte >= TopValue
    BY <2>1, <2>5, <2>6
  <2>9. PICK z \in Nat : z = q * (ProbTotal - x) /\ z >= 1 /\ z * Byte >= TopValue
    BY <2>1, <2>5
  <2>10. r - b \in Nat /\ r - b >= z
    BY <2>7, <2>8, <2>9
  <2>11. (r - b) * Byte >= z * Byte
    BY <2>9, <2>10, <1>w
  <2>12. (r - b) * Byte \in Nat /\ z * Byte \in Nat
    BY <2>9, <2>10, <1>w
  <2>13. p = IF bit = 0 THEN b ELSE r - b
    BY <1>2, <1>r DEF Open, Part
  <2>14. Below(s, model, bit) = IF bit = 0 THEN 0 ELSE b
    BY DEF Below
  <2>15. p * Byte >= TopValue
    BY <2>8, <2>9, <2>11, <2>12, <2>13, <1>w
  <2>16. b < r /\ p \in Nat /\ p >= 1 /\ p <= r
    BY <2>8, <2>9, <2>10, <2>13, <1>r
  <2>17. Below(s, model, bit) + p <= r /\ Below(s, model, bit) \in Nat
    BY <2>8, <2>13, <2>14, <2>16, <1>r
  <2> QED
    BY <1>2, <1>r, <2>8, <2>13, <2>15, <2>16, <2>17
<1> QED
  BY <1>1, <1>2

\* The probabilities keep their range, whichever of them moves.
LEMMA MovedProbs ==
  ASSUME NEW probs \in [Models -> Probs], NEW model \in Models \cup {Direct}, NEW bit \in 0 .. 1
  PROVE  Moved(probs, model, bit) \in [Models -> Probs]
<1>1. CASE model = Direct
  BY <1>1 DEF Moved
<1>2. CASE model \in Models
  <2>1. Adapted(probs[model], bit) \in Probs
    BY <1>2, AdaptedProb
  <2> QED
    BY <1>2, <2>1 DEF Moved
<1> QED
  BY <1>1, <1>2

\* A decision leads from a stage to a stage.
LEMMA NextStageIs ==
  ASSUME NEW s \in Stage, NEW model \in Models \cup {Direct}, NEW bit \in 0 .. 1,
         NEW x, x = s.num + Below(s, model, bit), NEW p, p = Open(s, model, bit),
         NEW z, z = NextStage(s, model, bit)
  PROVE  /\ x \in Nat /\ p \in Nat /\ p >= 1 /\ p < Word
         /\ z \in Stage /\ z.probs = Moved(s.probs, model, bit)
         /\ p < TopValue => z.num = x * Byte /\ z.rng = p * Byte /\ z.n = s.n + 1
         /\ p >= TopValue => z.num = x /\ z.rng = p /\ z.n = s.n
<1>w. /\ Byte \in Nat /\ Byte >= 2 /\ TopValue \in Nat /\ TopValue >= 2
      /\ Word \in Nat /\ Word = TopValue * Byte
  BY Widths
<1>1. /\ s.rng \in TopValue .. Word - 1 /\ s.probs \in [Models -> Probs]
      /\ s.num \in Nat /\ s.n \in Nat \ {0}
  BY DEF Stage
<1>2. PICK b : b = Cut(s, model)
  OBVIOUS
<1>3. /\ p \in Nat /\ p >= 1 /\ p <= s.rng /\ p * Byte >= TopValue /\ Below(s, model, bit) \in Nat
  BY <1>1, <1>2, CutIs
<1>4. x \in Nat /\ p < Word
  BY <1>1, <1>3, <1>w
<1>5. PICK q \in [Models -> Probs] : q = Moved(s.probs, model, bit)
  BY <1>1, MovedProbs
<1>6. CASE p < TopValue
  <2>1. z = [num |-> x * Byte, rng |-> p * Byte, n |-> s.n + 1, probs |-> q]
    BY <1>5, <1>6 DEF NextStage
  <2>2. p * Byte <= (TopValue - 1) * Byte
    BY <1>3, <1>6, <1>w
  <2>3. (TopValue - 1) * Byte = Word - Byte
    BY <1>w
  <2>4. p * Byte \in TopValue .. Word - 1 /\ x * Byte \in Nat
    BY <2>2, <2>3, <1>3, <1>4, <1>w
  <2>5. z.num = x * Byte /\ z.rng = p * Byte /\ z.n = s.n + 1 /\ z.probs = q
    BY <2>1
  <2>6. z \in Stage
    BY <2>1, <2>4, <1>1 DEF Stage
  <2> QED
    BY <2>5, <2>6, <1>3, <1>4, <1>5, <1>6, <1>w
<1>7. CASE p >= TopValue
  <2>1. z = [num |-> x, rng |-> p, n |-> s.n, probs |-> q]
    BY <1>3, <1>5, <1>7, <1>w DEF NextStage
  <2>2. p \in TopValue .. Word - 1
    BY <1>3, <1>4, <1>7, <1>w
  <2>3. z.num = x /\ z.rng = p /\ z.n = s.n /\ z.probs = q
    BY <2>1
  <2>4. z \in Stage
    BY <2>1, <2>2, <1>1, <1>4 DEF Stage
  <2> QED
    BY <2>3, <2>4, <1>3, <1>4, <1>5, <1>7, <1>w
<1> QED
  BY <1>3, <1>6, <1>7, <1>w

(***************************************************************************)
(* The encoder.                                                            *)
(***************************************************************************)

\* The encoder stands at the stage s.
Stands(e, o, s) ==
  HeldAs(e, o, s.num, s.rng) /\ e.rng = s.rng /\ e.probs = s.probs /\ Size(e, o) = s.n

\* A decision narrows the range, and what is held goes up to its new low end.
LEMMA NarrowedHolds ==
  ASSUME NEW e, NEW o, NEW s \in Stage, Stands(e, o, s),
         NEW model \in Models \cup {Direct}, NEW bit \in 0 .. 1,
         NEW e1, e1 = Narrowed(e, model, bit),
         NEW x, x = s.num + Below(s, model, bit), NEW p, p = Open(s, model, bit)
  PROVE  /\ HeldAs(e1, o, x, p) /\ Size(e1, o) = s.n
         /\ e1.rng = p /\ e1.probs = Moved(s.probs, model, bit)
<1>w. Word \in Nat
  BY Widths
<1>1. /\ s.rng \in TopValue .. Word - 1 /\ s.probs \in [Models -> Probs]
      /\ s.num \in Nat /\ s.n \in Nat \ {0}
  BY DEF Stage
<1>2. PICK b : b = Cut(s, model)
  OBVIOUS
<1>3. PICK a \in Nat : a = Below(s, model, bit) /\ a + p <= s.rng /\ p \in Nat /\ p >= 1 /\ b \in Nat
  BY <1>1, <1>2, CutIs
<1>4. /\ e \in Coder /\ o \in Seq(Bytes) /\ Room(e, o, s.rng)
      /\ e.rng = s.rng /\ e.probs = s.probs /\ Size(e, o) = s.n
  BY DEF Stands, HeldAs
<1>5. PICK q \in [Models -> Probs] : q = Moved(s.probs, model, bit)
  BY <1>1, MovedProbs
<1>6. e.low \in Nat /\ e.cache \in Bytes /\ e.cacheSize \in Nat \ {0}
  BY <1>4 DEF Coder
<1>7. e1 = [low |-> e.low + a, rng |-> p, cache |-> e.cache, cacheSize |-> e.cacheSize, probs |-> q]
  <2>1. Cut(e, model) = b
    BY <1>2, <1>4 DEF Cut
  <2>2. a = IF bit = 0 THEN 0 ELSE b
    BY <1>2, <1>3 DEF Below
  <2>3. p = Part(e.rng, b, model, bit)
    BY <1>2, <1>4 DEF Open
  <2>4. e1 = [low |-> IF bit = 0 THEN e.low ELSE e.low + b, rng |-> p,
              cache |-> e.cache, cacheSize |-> e.cacheSize, probs |-> q]
    BY <2>1, <2>3, <1>4, <1>5 DEF Narrowed
  <2>5. (IF bit = 0 THEN e.low ELSE e.low + b) = e.low + a
    BY <2>2, <1>6
  <2> QED
    BY <2>4, <2>5
<1>8. /\ e1.low = e.low + a /\ e1.rng = p /\ e1.cache = e.cache /\ e1.cacheSize = e.cacheSize
      /\ e1.probs = q
  BY <1>7
<1>9. e1 \in Coder
  BY <1>3, <1>6, <1>7 DEF Coder
<1>10. Room(e1, o, p)
  <2>1. e1.low + p <= e.low + s.rng
    BY <1>1, <1>3, <1>6, <1>8
  <2>2. e1.low + p \in Nat /\ e.low + s.rng \in Nat
    BY <1>1, <1>3, <1>6, <1>8, Widths
  <2>3. PICK y \in Nat, z \in Nat : y = e1.low + p /\ z = e.low + s.rng
    BY <2>2
  <2> QED
    BY <2>1, <2>3, <1>4, <1>8, <1>w DEF Room
<1>11. PICK f : Spells(f, e, o) /\ s.num = f[Size(e, o)] * Word + e.low
  BY DEF Stands, HeldAs
<1>12. Size(e1, o) = Size(e, o) /\ \A m : Digit(e1, o, m) = Digit(e, o, m)
  BY <1>8 DEF Size, Digit
<1>13. Spells(f, e1, o)
  BY <1>11, <1>12 DEF Spells
<1>14. x = f[Size(e1, o)] * Word + e1.low
  <2>1. Size(e, o) \in 0 .. Size(e, o)
    BY <1>1, <1>4
  <2>2. PICK y \in Nat : y = f[Size(e, o)]
    BY <1>11, <2>1 DEF Spells
  <2>3. PICK z \in Nat : z = y * Word
    BY <2>2, <1>w
  <2>4. s.num = z + e.low /\ x = s.num + a
    BY <2>2, <2>3, <1>11, <1>3
  <2> QED
    BY <2>2, <2>3, <2>4, <1>6, <1>8, <1>12, <1>3
<1> QED
  BY <1>4, <1>5, <1>8, <1>9, <1>10, <1>12, <1>13, <1>14 DEF HeldAs

\* What normalize makes of a coder.
Settled(e, o) ==
  IF e.rng < TopValue THEN ShiftLow([e EXCEPT !.rng = @ * Byte], o) ELSE [enc |-> e, out |-> o]

\* A decision takes the encoder from stage to stage.
LEMMA EncodeStep ==
  ASSUME NEW e, NEW o, NEW s \in Stage, Stands(e, o, s),
         NEW model \in Models \cup {Direct}, NEW bit \in 0 .. 1,
         NEW w, w = Settled(Narrowed(e, model, bit), o)
  PROVE  Stands(w.enc, w.out, NextStage(s, model, bit))
<1>w. /\ Byte \in Nat /\ Byte >= 2 /\ TopValue \in Nat /\ TopValue >= 2
  BY Widths
<1>1. PICK e1, x, p, z : /\ e1 = Narrowed(e, model, bit) /\ x = s.num + Below(s, model, bit)
                         /\ p = Open(s, model, bit) /\ z = NextStage(s, model, bit)
  OBVIOUS
<1>2. /\ HeldAs(e1, o, x, p) /\ Size(e1, o) = s.n
      /\ e1.rng = p /\ e1.probs = Moved(s.probs, model, bit)
  BY <1>1, NarrowedHolds
<1>3. /\ x \in Nat /\ p \in Nat /\ p >= 1
      /\ z \in Stage /\ z.probs = Moved(s.probs, model, bit)
      /\ p < TopValue => z.num = x * Byte /\ z.rng = p * Byte /\ z.n = s.n + 1
      /\ p >= TopValue => z.num = x /\ z.rng = p /\ z.n = s.n
  BY <1>1, NextStageIs
<1>4. CASE p < TopValue
  <2>1. PICK e2 : e2 = [e1 EXCEPT !.rng = p * Byte]
    OBVIOUS
  <2>2. w = ShiftLow(e2, o)
    BY <2>1, <1>1, <1>2, <1>4 DEF Settled
  <2>3. /\ e1 \in Coder /\ e2 \in Coder /\ e2.low = e1.low /\ e2.cache = e1.cache
        /\ e2.cacheSize = e1.cacheSize /\ e2.probs = e1.probs /\ e2.rng = p * Byte
    <3>1. e1 \in Coder /\ p * Byte \in Nat
      BY <1>2, <1>3, <1>w DEF HeldAs
    <3> QED
      BY <2>1, <3>1 DEF Coder
  <2>4. Size(e2, o) = Size(e1, o) /\ \A m : Digit(e2, o, m) = Digit(e1, o, m)
    BY <2>3 DEF Size, Digit
  <2>5. Room(e2, o, p)
    BY <2>3, <1>2 DEF Room, HeldAs
  <2>6. PICK f : Spells(f, e1, o) /\ x = f[Size(e1, o)] * Word + e1.low
    BY <1>2 DEF HeldAs
  <2>7. Spells(f, e2, o) /\ x = f[Size(e2, o)] * Word + e2.low
    BY <2>3, <2>4, <2>6 DEF Spells
  <2>8. o \in Seq(Bytes)
    BY <1>2 DEF HeldAs
  <2>9. HeldAs(e2, o, x, p)
    BY <2>3, <2>5, <2>7, <2>8 DEF HeldAs
  <2>10. p \in 1 .. TopValue
    BY <1>3, <1>4, <1>w
  <2>11. /\ HeldAs(w.enc, w.out, x * Byte, p * Byte) /\ Size(w.enc, w.out) = Size(e2, o) + 1
         /\ w.enc.rng = e2.rng /\ w.enc.probs = e2.probs
    BY <2>2, <2>9, <2>10, <1>3, Shift
  <2>12. Stands(w.enc, w.out, z)
    BY <2>3, <2>4, <2>11, <1>2, <1>3, <1>4 DEF Stands
  <2> QED
    BY <2>12, <1>1
<1>5. CASE p >= TopValue
  <2>1. w = [enc |-> e1, out |-> o]
    BY <1>1, <1>2, <1>3, <1>5, <1>w DEF Settled
  <2>2. w.enc = e1 /\ w.out = o
    BY <2>1
  <2>3. Stands(w.enc, w.out, z)
    BY <2>2, <1>2, <1>3, <1>5 DEF Stands
  <2> QED
    BY <2>3, <1>1
<1> QED
  BY <1>3, <1>4, <1>5, <1>w

(***************************************************************************)
(* The course of the stages, and where what is written lies in them.       *)
(***************************************************************************)

\* h is the course the decisions a take.
Course(h, a) ==
  /\ h \in [0 .. Len(a) -> Stage] /\ h[0] = FirstStage
  /\ \A i \in 1 .. Len(a) : h[i] = NextStage(h[i - 1], a[i].model, a[i].bit)

\* The bytes that the decoder has at the stage s are in the stage's range.
InStage(f, o, s) == s.n + 4 <= Len(o) /\ s.num <= f[s.n + 4] /\ f[s.n + 4] < s.num + s.rng

\* The first stage is one.
LEMMA FirstStageIs == FirstStage \in Stage
<1>w. /\ TopValue \in Nat /\ TopValue >= 2 /\ Word \in Nat /\ 2 * TopValue <= Word
      /\ Move \in Nat /\ Move >= 2 /\ ProbTotal \in Nat /\ Move <= ProbTotal \div 2
  BY Widths, WidthsAssumption
<1>1. ProbInit \in Probs
  BY <1>w DEF ProbInit, Probs
<1>2. Untouched \in [Models -> Probs]
  BY <1>1 DEF Untouched
<1>3. Word - 1 \in TopValue .. Word - 1
  BY <1>w
<1> QED
  BY <1>2, <1>3 DEF FirstStage, Stage

\* A number in the next stage's range is in the part of this one's range that
\* stands for the bit.
LEMMA WithinPart ==
  ASSUME NEW s \in Stage, NEW model \in Models \cup {Direct}, NEW bit \in 0 .. 1,
         NEW x, x = s.num + Below(s, model, bit), NEW p, p = Open(s, model, bit),
         NEW z, z = NextStage(s, model, bit),
         NEW f, NEW o, NEW num, Written(f, o, num), InStage(f, o, z)
  PROVE  /\ s.n + 4 \in Nat /\ f[s.n + 4] \in Nat /\ x <= f[s.n + 4] /\ f[s.n + 4] < x + p
         /\ InStage(f, o, s)
         /\ p < TopValue => s.n + 5 <= Len(o) /\ o[s.n + 5] \in Bytes
                            /\ f[s.n + 5] = f[s.n + 4] * Byte + o[s.n + 5]
<1>w. /\ Byte \in Nat /\ Byte >= 2 /\ TopValue \in Nat /\ TopValue >= 2
  BY Widths
<1>1. /\ x \in Nat /\ p \in Nat /\ p >= 1
      /\ p < TopValue => z.num = x * Byte /\ z.rng = p * Byte /\ z.n = s.n + 1
      /\ p >= TopValue => z.num = x /\ z.rng = p /\ z.n = s.n
  BY NextStageIs
<1>2. /\ s.rng \in TopValue .. Word - 1 /\ s.probs \in [Models -> Probs]
      /\ s.num \in Nat /\ s.n \in Nat \ {0}
  BY DEF Stage
<1>3. PICK b : b = Cut(s, model)
  OBVIOUS
<1>4. PICK a \in Nat : a = Below(s, model, bit) /\ a + p <= s.rng
  BY <1>2, <1>3, CutIs
<1>5. PICK m \in Nat : m = s.n + 4 /\ s.n + 5 = m + 1 /\ (s.n + 1) + 4 = m + 1
  BY <1>2
<1>6. o \in Seq(Bytes) /\ f \in [0 .. Len(o) -> Nat] /\ Len(o) \in Nat
  BY DEF Written
<1>7. z.n + 4 <= Len(o) /\ z.num <= f[z.n + 4] /\ f[z.n + 4] < z.num + z.rng
  BY DEF InStage
<1>8. CASE p >= TopValue
  <2>1. m <= Len(o) /\ x <= f[m] /\ f[m] < x + p
    BY <1>1, <1>5, <1>7, <1>8
  <2>2. f[m] \in Nat
    BY <2>1, <1>5, <1>6
  <2>3. x + p <= s.num + s.rng /\ s.num <= x
    BY <1>1, <1>2, <1>4
  <2>4. s.num <= f[m] /\ f[m] < s.num + s.rng
    BY <2>1, <2>2, <2>3, <1>1, <1>2, SMTT(30)
  <2> QED
    BY <2>1, <2>2, <2>4, <1>1, <1>5, <1>8, <1>w DEF InStage
<1>9. CASE p < TopValue
  <2>1. m + 1 <= Len(o) /\ x * Byte <= f[m + 1] /\ f[m + 1] < x * Byte + p * Byte
    BY <1>1, <1>5, <1>7, <1>9
  <2>2. m + 1 \in 1 .. Len(o) /\ (m + 1) - 1 = m /\ m \in 0 .. Len(o)
    BY <2>1, <1>6
  <2>3. f[m] \in Nat /\ o[m + 1] \in Bytes
    BY <2>2, <1>6
  <2>4. f[m + 1] = f[m] * Byte + o[m + 1]
    BY <2>2 DEF Written
  <2>5. PICK v \in Nat, d \in 0 .. Byte - 1 : v = f[m] /\ d = o[m + 1]
    BY <2>3 DEF Bytes
  <2>6. x * Byte <= v * Byte + d /\ v * Byte + d < x * Byte + p * Byte
    BY <2>1, <2>4, <2>5
  <2>7. x <= v
    <3>1. v + 1 <= x => (v + 1) * Byte <= x * Byte
      BY <1>1, <1>w
    <3>2. (v + 1) * Byte = v * Byte + Byte
      BY <1>w
    <3>3. PICK y \in Int, u \in Int : y = v * Byte /\ u = x * Byte
      BY <1>1, <1>w
    <3> QED
      BY <2>6, <3>1, <3>2, <3>3, <1>1, <1>w
  <2>8. v < x + p
    <3>1. x + p <= v => (x + p) * Byte <= v * Byte
      BY <1>1, <1>w
    <3>2. (x + p) * Byte = x * Byte + p * Byte
      BY <1>1, <1>w
    <3>3. PICK y \in Int, u \in Int : y = v * Byte /\ u = x * Byte + p * Byte
      BY <1>1, <1>w
    <3> QED
      BY <2>6, <3>1, <3>2, <3>3, <1>1, <1>w
  <2>9. x + p <= s.num + s.rng /\ s.num <= x
    BY <1>1, <1>2, <1>4
  <2>10. s.num <= v /\ v < s.num + s.rng
    BY <2>7, <2>8, <2>9, <1>1, <1>2
  <2>11. m <= Len(o)
    BY <2>1, <1>6
  <2> QED
    BY <2>1, <2>3, <2>4, <2>5, <2>7, <2>8, <2>10, <2>11, <1>5 DEF InStage
<1> QED
  BY <1>1, <1>8, <1>9, <1>w

\* So it is in every stage's range that came before.
LEMMA WithinAll ==
  ASSUME NEW a \in Seq(Decisions), NEW h, Course(h, a),
         NEW f, NEW o, Written(f, o, h[Len(a)].num), Len(o) = h[Len(a)].n + 4
  PROVE  \A i \in 0 .. Len(a) : h[i] \in Stage /\ InStage(f, o, h[i])
<1>w. TopValue \in Nat /\ TopValue >= 2 /\ Word \in Nat
  BY Widths
<1>1. PICK N \in Nat : N = Len(a)
  OBVIOUS
<1>2. \A i \in 0 .. N : h[i] \in Stage
  BY <1>1 DEF Course
<1> DEFINE K == {k \in Nat : k <= N => InStage(f, o, h[N - k])}
<1>3. 0 \in K
  <2>1. PICK s : s = h[N]
    OBVIOUS
  <2>2. s \in Stage
    BY <1>2, <2>1
  <2>3. s.num \in Nat /\ s.rng \in Nat /\ s.rng >= 1 /\ s.n \in Nat
    BY <2>2, <1>w DEF Stage
  <2>4. Len(o) = s.n + 4 /\ f[Len(o)] = s.num
    BY <2>1, <1>1 DEF Written
  <2>5. InStage(f, o, s)
    BY <2>3, <2>4, SMTT(30) DEF InStage
  <2>6. N - 0 = N
    OBVIOUS
  <2> QED
    BY <2>1, <2>5, <2>6
<1>4. ASSUME NEW k \in Nat, k \in K PROVE k + 1 \in K
  <2> SUFFICES ASSUME k + 1 <= N PROVE InStage(f, o, h[N - (k + 1)])
    OBVIOUS
  <2>1. PICK i \in 1 .. N : i = N - k /\ N - (k + 1) = i - 1 /\ i - 1 \in 0 .. N
    OBVIOUS
  <2>2. InStage(f, o, h[i])
    BY <1>4, <2>1
  <2>3. a[i] \in Decisions
    BY <1>1, <2>1
  <2>4. PICK m, b : m = a[i].model /\ b = a[i].bit /\ m \in Models \cup {Direct} /\ b \in 0 .. 1
    BY <2>3 DEF Decisions
  <2>5. PICK s, z : s = h[i - 1] /\ z = h[i] /\ s \in Stage
    BY <2>1, <1>2
  <2>6. z = NextStage(s, m, b)
    BY <2>1, <2>4, <2>5, <1>1 DEF Course
  <2>7. InStage(f, o, s)
    <3>1. PICK x, p, num : x = s.num + Below(s, m, b) /\ p = Open(s, m, b) /\ num = h[Len(a)].num
      OBVIOUS
    <3>2. Written(f, o, num) /\ InStage(f, o, z)
      BY <3>1, <2>2, <2>5
    <3> QED
      BY <3>1, <3>2, <2>4, <2>5, <2>6, WithinPart
  <2> QED
    BY <2>1, <2>5, <2>7
<1> HIDE DEF K
<1>5. Nat \subseteq K
  BY <1>3, <1>4, Induction
<1>6. ASSUME NEW i \in 0 .. N PROVE InStage(f, o, h[i])
  <2>1. N - i \in Nat /\ N - i <= N /\ N - (N - i) = i
    OBVIOUS
  <2>2. N - i \in K
    BY <2>1, <1>5
  <2> QED
    BY <2>1, <2>2 DEF K
<1> QED
  BY <1>1, <1>2, <1>6

(***************************************************************************)
(* The decoder.                                                            *)
(***************************************************************************)

\* The decoder stands at the stage s of what f spells.
ReadsAs(d, f, s) ==
  /\ d.pos = s.n + 4 /\ d.rng = s.rng /\ d.code = f[s.n + 4] - s.num
  /\ d.overrun = 0 /\ d.probs = s.probs

\* The bit it sees.
Seen(d, model) ==
  IF model = Direct THEN 1 - ((d.code - Cut(d, model)) % Word) \div (Word \div 2)
  ELSE IF d.code < Cut(d, model) THEN 0 ELSE 1

\* It is the bit that was written.
LEMMA SeenIs ==
  ASSUME NEW s \in Stage, NEW model \in Models \cup {Direct}, NEW bit \in 0 .. 1,
         NEW x, x = s.num + Below(s, model, bit), NEW p, p = Open(s, model, bit),
         NEW d, NEW f, ReadsAs(d, f, s), f[s.n + 4] \in Nat, x <= f[s.n + 4], f[s.n + 4] < x + p
  PROVE  Seen(d, model) = bit
<1>w. Word \in Nat /\ Word >= 2 /\ Word % 2 = 0 /\ TopValue \in Nat /\ TopValue >= 2 /\ 2 * TopValue <= Word
  BY Widths
<1>1. /\ s.rng \in TopValue .. Word - 1 /\ s.probs \in [Models -> Probs] /\ s.num \in Nat
  BY DEF Stage
<1>2. PICK b : b = Cut(s, model)
  OBVIOUS
<1>3. /\ b \in Nat /\ b >= 1 /\ p \in Nat /\ p >= 1
      /\ bit = 0 => p = b
      /\ model = Direct => p = b /\ 2 * b <= s.rng
  BY <1>1, <1>2, CutIs
<1>4. Cut(d, model) = b
  BY <1>2 DEF ReadsAs, Cut
<1>5. PICK u \in Int : u = f[s.n + 4] - s.num /\ d.code = u
  BY <1>1 DEF ReadsAs
<1>6. bit = 0 => 0 <= u /\ u < b
  <2>1. bit = 0 => x = s.num
    BY <1>1 DEF Below
  <2> QED
    BY <2>1, <1>1, <1>3, <1>5
<1>7. bit = 1 => b <= u /\ u < b + p
  <2>1. bit = 1 => x = s.num + b
    BY <1>1, <1>2 DEF Below
  <2> QED
    BY <2>1, <1>1, <1>3, <1>5
<1>8. CASE model # Direct
  BY <1>3, <1>4, <1>5, <1>6, <1>7, <1>8 DEF Seen
<1>9. CASE model = Direct
  <2>1. PICK H \in Nat : H = Word \div 2 /\ Word = 2 * H /\ H >= 1 /\ b < H
    BY <1>w, <1>1, <1>3, <1>9
  <2>2. PICK y \in Int : y = u - b
    BY <1>3
  <2>3. Seen(d, model) = 1 - (y % Word) \div H
    BY <2>1, <2>2, <1>4, <1>5, <1>9 DEF Seen
  <2>4. CASE bit = 1
    <3>1. y \in 0 .. H - 1
      BY <2>1, <2>2, <2>4, <1>3, <1>7, <1>9
    <3>2. y \in 0 .. Word - 1 /\ y = Word * 0 + y /\ Word \in Nat \ {0}
      BY <3>1, <2>1, <1>w
    <3>3. y % Word = y
      BY <3>2, QuotientIs
    <3>4. y = H * 0 + y /\ H \in Nat \ {0}
      BY <3>1, <2>1
    <3>5. y \div H = 0
      BY <3>1, <3>4, QuotientIs
    <3> QED
      BY <2>3, <2>4, <3>3, <3>5
  <2>5. CASE bit = 0
    <3>1. y < 0 /\ y >= -H
      BY <2>1, <2>2, <2>5, <1>3, <1>6
    <3>2. PICK v \in 0 .. Word - 1 : v = y + Word /\ v >= H
      BY <3>1, <2>1
    <3>3. PICK q \in Int : q = -1 /\ y = Word * q + v /\ Word \in Nat \ {0}
      BY <3>2, <1>w
    <3>4. y % Word = v
      BY <3>2, <3>3, QuotientIs
    <3>5. v = H * 1 + (v - H) /\ v - H \in 0 .. H - 1 /\ H \in Nat \ {0}
      BY <3>2, <2>1
    <3>6. v \div H = 1
      BY <3>2, <3>5, QuotientIs
    <3> QED
      BY <2>3, <2>5, <3>4, <3>6
  <2> QED
    BY <2>4, <2>5
<1> QED
  BY <1>8, <1>9

\* What the decoder makes of its range for the bit.
Taken(d, model, bit) ==
  [pos |-> d.pos, rng |-> Part(d.rng, Cut(d, model), model, bit),
   code |-> IF bit = 0 THEN d.code ELSE d.code - Cut(d, model),
   overrun |-> d.overrun, probs |-> Moved(d.probs, model, bit)]

\* It goes to the next stage.
LEMMA DecodeStep ==
  ASSUME NEW s \in Stage, NEW model \in Models \cup {Direct}, NEW bit \in 0 .. 1,
         NEW z, z = NextStage(s, model, bit),
         NEW f, NEW num, Written(f, out, num), InStage(f, out, z),
         NEW d, ReadsAs(d, f, s)
  PROVE  Seen(d, model) = bit /\ ReadsAs(Refill(Taken(d, model, bit)), f, z)
<1>w. /\ Byte \in Nat /\ Byte >= 2 /\ TopValue \in Nat /\ TopValue >= 2
      /\ Word \in Nat /\ Word = TopValue * Byte
  BY Widths
<1>1. PICK x, p, b : x = s.num + Below(s, model, bit) /\ p = Open(s, model, bit) /\ b = Cut(s, model)
  OBVIOUS
<1>2. /\ x \in Nat /\ p \in Nat /\ p >= 1
      /\ z.probs = Moved(s.probs, model, bit)
      /\ p < TopValue => z.num = x * Byte /\ z.rng = p * Byte /\ z.n = s.n + 1
      /\ p >= TopValue => z.num = x /\ z.rng = p /\ z.n = s.n
  BY <1>1, NextStageIs
<1>3. /\ s.n + 4 \in Nat /\ f[s.n + 4] \in Nat /\ x <= f[s.n + 4] /\ f[s.n + 4] < x + p
      /\ p < TopValue => s.n + 5 <= Len(out) /\ out[s.n + 5] \in Bytes
                         /\ f[s.n + 5] = f[s.n + 4] * Byte + out[s.n + 5]
  BY <1>1, WithinPart
<1>4. Seen(d, model) = bit
  BY <1>1, <1>3, SeenIs
<1>5. s.num \in Nat /\ s.n \in Nat /\ s.rng \in TopValue .. Word - 1 /\ s.probs \in [Models -> Probs]
  BY DEF Stage
<1>6. PICK m \in Nat, V \in Nat : m = s.n + 4 /\ s.n + 5 = m + 1 /\ (s.n + 1) + 4 = m + 1 /\ V = f[m]
  BY <1>3, <1>5
<1>7. PICK t : t = Taken(d, model, bit)
  OBVIOUS
<1>8. /\ t.pos = m /\ t.rng = p /\ t.code = V - x /\ t.overrun = 0
      /\ t.probs = Moved(s.probs, model, bit)
  <2>1. Cut(d, model) = b /\ d.rng = s.rng /\ d.probs = s.probs /\ d.overrun = 0 /\ d.pos = m /\ d.code = V - s.num
    BY <1>1, <1>6 DEF ReadsAs, Cut
  <2>2. /\ t.pos = m /\ t.rng = p /\ t.overrun = 0 /\ t.probs = Moved(s.probs, model, bit)
        /\ t.code = IF bit = 0 THEN d.code ELSE d.code - b
    BY <2>1, <1>1, <1>7 DEF Taken, Open
  <2>3. b \in Nat
    BY <1>1, <1>5, CutIs
  <2>4. x = s.num + IF bit = 0 THEN 0 ELSE b
    BY <1>1 DEF Below
  <2>5. t.code = V - x
    BY <2>1, <2>2, <2>3, <2>4, <1>5
  <2> QED
    BY <2>2, <2>5
<1>9. PICK c \in Nat : c = V - x /\ c < p /\ t.code = c
  <2>1. x <= V /\ V < x + p
    BY <1>3, <1>6
  <2>2. V - x \in Nat /\ V - x < p
    BY <2>1, <1>2
  <2> QED
    BY <2>2, <1>8
<1>10. CASE p >= TopValue
  <2>1. Refill(t) = t
    BY <1>8, <1>10, <1>2, <1>w DEF Refill
  <2>2. ReadsAs(t, f, z)
    BY <1>2, <1>6, <1>8, <1>10 DEF ReadsAs
  <2> QED
    BY <2>1, <2>2, <1>4, <1>7
<1>11. CASE p < TopValue
  <2>1. PICK e \in 0 .. Byte - 1 : e = out[m + 1]
    BY <1>3, <1>6, <1>11 DEF Bytes
  <2>2. m + 1 <= Len(out) /\ f[m + 1] = V * Byte + e
    BY <1>3, <1>6, <1>11, <2>1
  <2>3. Len(out) \in Nat
    BY DEF Written
  <2>4. ByteAt(m + 1) = e /\ m < Len(out)
    BY <2>1, <2>2, <2>3 DEF ByteAt
  <2>5. Refill(t) = [pos |-> m + 1, rng |-> p * Byte, code |-> (c * Byte + e) % Word,
                     overrun |-> 0, probs |-> t.probs]
    BY <2>4, <1>8, <1>9, <1>11, <1>2, <1>w DEF Refill
  <2>6. c * Byte + e \in 0 .. Word - 1
    <3>1. c * Byte <= (TopValue - 2) * Byte
      BY <1>9, <1>11, <1>2, <1>w
    <3>2. (TopValue - 2) * Byte = Word - 2 * Byte
      BY <1>w
    <3>3. c * Byte \in Nat
      BY <1>w
    <3> QED
      BY <3>1, <3>2, <3>3, <2>1, <1>w
  <2>7. (c * Byte + e) % Word = c * Byte + e
    <3>1. PICK y \in 0 .. Word - 1 : y = c * Byte + e
      BY <2>6
    <3>2. y = Word * 0 + y /\ Word \in Nat \ {0}
      BY <1>w, <3>1
    <3> QED
      BY <3>1, <3>2, QuotientIs
  <2>8. c * Byte + e = f[m + 1] - x * Byte
    <3>1. (V - x) * Byte = V * Byte - x * Byte
      BY <1>2, <1>w
    <3> QED
      BY <3>1, <2>1, <2>2, <1>9, <1>2, <1>w
  <2>9. PICK r : r = Refill(t)
    OBVIOUS
  <2>10. /\ r.pos = m + 1 /\ r.rng = p * Byte /\ r.code = f[m + 1] - x * Byte
         /\ r.overrun = 0 /\ r.probs = t.probs
    BY <2>5, <2>7, <2>8, <2>9
  <2>11. ReadsAs(r, f, z)
    BY <2>10, <1>2, <1>6, <1>8, <1>11 DEF ReadsAs
  <2> QED
    BY <2>9, <2>11, <1>4, <1>7
<1> QED
  BY <1>2, <1>10, <1>11, <1>w

(***************************************************************************)
(* The invariant.                                                          *)
(***************************************************************************)

\* While the encoder writes, it stands where the decisions so far lead.
Encoding(h) == coding = "encode" /\ got = <<>> /\ Stands(enc, out, h[Len(asked)])

\* After the flush the bytes are the number at the end of the course.
Flush(h) ==
  /\ enc.probs = h[Len(asked)].probs /\ Len(out) = h[Len(asked)].n + 4
  /\ \E f : /\ Written(f, out, h[Len(asked)].num)
            /\ \/ coding = "finish" /\ got = <<>>
               \/ coding = "decode" /\ ReadsAs(dec, f, h[Len(got)])

\* What was read is what was written, and the coder at work stands where the
\* decisions' course says.
CoderInv ==
  /\ asked \in Seq(Decisions) /\ got \in Seq(0 .. 1) /\ Len(got) <= Len(asked)
  /\ \A i \in 1 .. Len(got) : got[i] = asked[i].bit
  /\ \E h : Course(h, asked) /\ (Encoding(h) \/ Flush(h))

\* The invariant at the start,
LEMMA CoderInitInv == CoderInit => CoderInv
<1> SUFFICES ASSUME CoderInit PROVE CoderInv
  OBVIOUS
<1>w. /\ Byte \in Nat /\ Byte >= 2 /\ TopValue \in Nat /\ TopValue >= 2
      /\ Word \in Nat /\ 2 * TopValue <= Word
  BY Widths
<1>1. asked = <<>> /\ got = <<>> /\ out = <<>> /\ coding = "encode"
  BY DEF CoderInit
<1>2. enc = [low |-> 0, rng |-> Word - 1, cache |-> 0, cacheSize |-> 1, probs |-> Untouched]
  BY DEF CoderInit
<1>3. FirstStage \in Stage
  BY FirstStageIs
<1>4. PICK s \in Stage : /\ s = FirstStage /\ s.num = 0 /\ s.rng = Word - 1 /\ s.n = 1
                         /\ s.probs = Untouched
  BY <1>3 DEF FirstStage
<1>5. Untouched \in [Models -> Probs]
  BY <1>4 DEF Stage
<1>6. PICK h : h = [i \in 0 .. 0 |-> s]
  OBVIOUS
<1>7. Course(h, asked) /\ h[Len(asked)] = s
  BY <1>1, <1>4, <1>6 DEF Course
<1>8. /\ enc.low = 0 /\ enc.rng = Word - 1 /\ enc.cache = 0 /\ enc.cacheSize = 1
      /\ enc.probs = Untouched
  BY <1>2
<1>9. enc \in Coder
  BY <1>2, <1>5, <1>w DEF Coder, Bytes
<1>10. Room(enc, out, Word - 1)
  BY <1>1, <1>8, <1>w DEF Room
<1>11. Size(enc, out) = 1 /\ Digit(enc, out, 1) = 0
  BY <1>1, <1>8 DEF Size, Digit
<1>12. PICK f : f = [m \in 0 .. 1 |-> 0]
  OBVIOUS
<1>13. Spells(f, enc, out) /\ 0 = f[Size(enc, out)] * Word + enc.low
  BY <1>8, <1>11, <1>12, <1>w DEF Spells
<1>14. out \in Seq(Bytes)
  BY <1>1
<1>15. Stands(enc, out, s)
  BY <1>4, <1>8, <1>9, <1>10, <1>11, <1>13, <1>14 DEF Stands, HeldAs
<1> QED
  BY <1>1, <1>7, <1>15 DEF CoderInv, Encoding

\* The decisions in c have a course that a step of the stage s ends.
Longer(c, s, model, bit) ==
    \E g : Course(g, c) /\ g[Len(c)] = NextStage(s, model, bit)

\* A decision makes the course longer.
LEMMA CourseLonger ==
  ASSUME NEW a \in Seq(Decisions), NEW h, Course(h, a),
         NEW model \in Models \cup {Direct}, NEW bit \in 0 .. 1,
         NEW c, c = Append(a, [model |-> model, bit |-> bit])
  PROVE  /\ c \in Seq(Decisions) /\ h[Len(a)] \in Stage
         /\ Longer(c, h[Len(a)], model, bit)
<1>1. PICK N \in Nat : N = Len(a)
  OBVIOUS
<1>2. PICK d \in Decisions : d = [model |-> model, bit |-> bit] /\ d.model = model /\ d.bit = bit
  BY DEF Decisions
<1>3. c \in Seq(Decisions) /\ Len(c) = N + 1 /\ c[N + 1] = d /\ \A i \in 1 .. N : c[i] = a[i]
  BY <1>1, <1>2
<1>4. \A i \in 0 .. N : h[i] \in Stage
  BY <1>1 DEF Course
<1>5. h[N] \in Stage
  BY <1>4, <1>1
<1>6. PICK z \in Stage : z = NextStage(h[N], model, bit)
  <2>1. PICK s, x, p, y : /\ s = h[N] /\ x = s.num + Below(s, model, bit) /\ p = Open(s, model, bit)
                          /\ y = NextStage(s, model, bit)
    OBVIOUS
  <2>2. y \in Stage
    BY <2>1, <1>5, NextStageIs
  <2> QED
    BY <2>1, <2>2
<1>7. PICK g : g = [i \in 0 .. N + 1 |-> IF i <= N THEN h[i] ELSE z]
  OBVIOUS
<1>8. g \in [0 .. N + 1 -> Stage]
  BY <1>4, <1>7
<1>9. g[0] = FirstStage
  BY <1>7, <1>1 DEF Course
<1>10. ASSUME NEW i \in 1 .. N + 1 PROVE g[i] = NextStage(g[i - 1], c[i].model, c[i].bit)
  <2>1. CASE i <= N
    <3>1. i \in 1 .. N /\ g[i] = h[i] /\ g[i - 1] = h[i - 1]
      BY <2>1, <1>7
    <3>2. h[i] = NextStage(h[i - 1], a[i].model, a[i].bit)
      BY <3>1, <1>1 DEF Course
    <3>3. c[i] = a[i]
      BY <3>1, <1>3
    <3> QED
      BY <3>1, <3>2, <3>3
  <2>2. CASE i = N + 1
    <3>1. g[i] = z /\ i - 1 = N /\ g[i - 1] = h[N]
      BY <2>2, <1>7
    <3> QED
      BY <3>1, <2>2, <1>2, <1>3, <1>6
  <2>3. i <= N \/ i = N + 1
    OBVIOUS
  <2> QED
    BY <2>1, <2>2, <2>3
<1>11. Course(g, c)
  BY <1>3, <1>8, <1>9, <1>10 DEF Course
<1>12. g[N + 1] = z
  BY <1>7
<1>13. g[Len(c)] = NextStage(h[Len(a)], model, bit)
  <2>1. g[Len(c)] = z
    BY <1>3, <1>12
  <2>2. NextStage(h[N], model, bit) = NextStage(h[Len(a)], model, bit)
    BY <1>1
  <2> QED
    BY <1>6, <2>1, <2>2
<1>14. Longer(c, h[Len(a)], model, bit)
  BY <1>11, <1>13 DEF Longer
<1>15. h[Len(a)] \in Stage
  BY <1>1, <1>5
<1> QED
  BY <1>3, <1>14, <1>15

\* when a decision is written,
LEMMA EncodeInv ==
  ASSUME CoderInv, NEW model \in Models \cup {Direct}, NEW bit \in 0 .. 1, Encode(model, bit)
  PROVE  CoderInv'
<1>1. /\ asked \in Seq(Decisions) /\ coding = "encode" /\ coding' = "encode" /\ got' = got
      /\ asked' = Append(asked, [model |-> model, bit |-> bit])
  BY DEF CoderInv, Encode
<1>2. PICK h : Course(h, asked) /\ Encoding(h)
  BY <1>1 DEF CoderInv, Flush
<1>3. got = <<>> /\ Stands(enc, out, h[Len(asked)])
  BY <1>2 DEF Encoding
<1>4. PICK a, c, s : a = asked /\ c = asked' /\ s = h[Len(asked)]
  OBVIOUS
<1>5. c \in Seq(Decisions) /\ s \in Stage /\ \E g : Course(g, c) /\ g[Len(c)] = NextStage(s, model, bit)
  <2>1. a \in Seq(Decisions) /\ Course(h, a) /\ c = Append(a, [model |-> model, bit |-> bit])
    BY <1>1, <1>2, <1>4
  <2>2. c \in Seq(Decisions) /\ h[Len(a)] \in Stage
    BY <2>1, CourseLonger
  <2>3. Longer(c, h[Len(a)], model, bit)
    BY <2>1, CourseLonger
  <2>4. s = h[Len(a)]
    BY <1>4
  <2>5. Longer(c, s, model, bit)
    BY <2>3, <2>4
  <2>6. s \in Stage
    BY <2>2, <2>4
  <2> QED
    BY <2>2, <2>5, <2>6 DEF Longer
<1>6. PICK g : Course(g, c) /\ g[Len(c)] = NextStage(s, model, bit)
  BY <1>5
<1>7. PICK e, o, w : e = enc /\ o = out /\ w = Settled(Narrowed(e, model, bit), o)
  OBVIOUS
<1>8. Stands(w.enc, w.out, NextStage(s, model, bit))
  BY <1>3, <1>4, <1>5, <1>7, EncodeStep
<1>9. enc' = w.enc /\ out' = w.out
  <2>1. PICK n : n = Narrowed(e, model, bit)
    OBVIOUS
  <2>2. Settle(n)
    BY <1>7, <2>1 DEF Encode
  <2>3. w = Settled(n, o)
    BY <1>7, <2>1
  <2>4. CASE n.rng < TopValue
    BY <1>7, <2>2, <2>3, <2>4 DEF Settle, Settled
  <2>5. CASE ~(n.rng < TopValue)
    <3>1. enc' = n /\ out' = o /\ w = [enc |-> n, out |-> o]
      BY <1>7, <2>2, <2>3, <2>5 DEF Settle, Settled
    <3> QED
      BY <3>1
  <2> QED
    BY <2>4, <2>5
<1>10. Encoding(g)'
  BY <1>1, <1>3, <1>4, <1>6, <1>8, <1>9 DEF Encoding
<1>11. Course(g, asked)'
  BY <1>4, <1>6
<1>12. got' = <<>> /\ got' \in Seq(0 .. 1) /\ Len(got') = 0 /\ asked' \in Seq(Decisions) /\ Len(asked') \in Nat
  BY <1>1, <1>3, <1>4, <1>5
<1> QED
  BY <1>10, <1>11, <1>12 DEF CoderInv

\* when the encoder is flushed,
LEMMA FinishInv == ASSUME CoderInv, Finish PROVE CoderInv'
<1>1. asked \in Seq(Decisions) /\ coding = "encode" /\ coding' = "finish" /\ got' = got /\ asked' = asked
  BY DEF CoderInv, Finish
<1>2. PICK h : Course(h, asked) /\ Encoding(h)
  BY <1>1 DEF CoderInv, Flush
<1>3. got = <<>> /\ Stands(enc, out, h[Len(asked)])
  BY <1>2 DEF Encoding
<1>4. PICK N \in Nat, s \in Stage : N = Len(asked) /\ s = h[N]
  BY <1>1, <1>2 DEF Course
<1>5. PICK e, o, w : e = enc /\ o = out /\ w = Shifts(e, o)
  OBVIOUS
<1>6. /\ HeldAs(e, o, s.num, s.rng) /\ e.probs = s.probs /\ Size(e, o) = s.n
      /\ s.num \in Nat /\ s.rng \in Nat /\ s.rng >= 1
  BY <1>3, <1>4, <1>5, Widths DEF Stands, Stage
<1>7. HeldAs(e, o, s.num, 1)
  BY <1>6, LessRoom
<1>8. (\E f : Written(f, w.out, s.num)) /\ Len(w.out) = s.n + 4 /\ w.enc.probs = s.probs
  BY <1>5, <1>6, <1>7, Flushed
<1>9. enc' = w.enc /\ out' = w.out
  BY <1>5 DEF Finish
<1>10. Flush(h)'
  BY <1>1, <1>3, <1>4, <1>8, <1>9 DEF Flush
<1> QED
  BY <1>1, <1>2, <1>10 DEF CoderInv

\* when the decoder takes its first bytes: it is then at the first stage,
LEMMA BeginInv == ASSUME CoderInv, Begin PROVE CoderInv'
<1>w. Byte \in Nat /\ Byte >= 2
  BY Widths
<1>1. /\ asked \in Seq(Decisions) /\ coding = "finish" /\ coding' = "decode"
      /\ got' = got /\ asked' = asked /\ enc' = enc /\ out' = out
  BY DEF CoderInv, Begin
<1>2. PICK h : Course(h, asked) /\ Flush(h)
  BY <1>1 DEF CoderInv, Encoding
<1>3. PICK N \in Nat, s \in Stage : N = Len(asked) /\ s = h[N] /\ h[0] = FirstStage
  BY <1>1, <1>2 DEF Course
<1>4. PICK f : Written(f, out, s.num) /\ got = <<>>
  BY <1>1, <1>2, <1>3 DEF Flush
<1>5. enc.probs = s.probs /\ Len(out) = s.n + 4 /\ s.n \in Nat \ {0}
  BY <1>2, <1>3 DEF Flush, Stage
<1>6. PICK L \in Nat : L = Len(out) /\ L >= 5
  BY <1>5
<1>7. \A m \in 1 .. 5 : m \in 1 .. L /\ ByteAt(m) = out[m] /\ ByteAt(m) \in Bytes /\ f[m] = f[m - 1] * Byte + ByteAt(m)
  BY <1>4, <1>6 DEF Written, ByteAt
<1>8. PICK a2 \in Nat, a3 \in Nat, a4 \in Nat, a5 \in Nat :
        a2 = ByteAt(2) /\ a3 = ByteAt(3) /\ a4 = ByteAt(4) /\ a5 = ByteAt(5)
  BY <1>7, <1>w DEF Bytes
<1>9. f[0] = 0 /\ ByteAt(1) = 0
  BY <1>4, <1>7 DEF Written
<1>10. f[1] = 0
  <2>1. f[1] = f[1 - 1] * Byte + ByteAt(1)
    BY <1>7
  <2> QED
    BY <2>1, <1>9, <1>w
<1>11. f[2] = a2
  <2>1. f[2] = f[2 - 1] * Byte + ByteAt(2)
    BY <1>7
  <2> QED
    BY <2>1, <1>8, <1>10, <1>w
<1>12. f[3] = a2 * Byte + a3
  <2>1. f[3] = f[3 - 1] * Byte + ByteAt(3)
    BY <1>7
  <2> QED
    BY <2>1, <1>8, <1>11
<1>13. f[4] = (a2 * Byte + a3) * Byte + a4
  <2>1. f[4] = f[4 - 1] * Byte + ByteAt(4)
    BY <1>7
  <2> QED
    BY <2>1, <1>8, <1>12
<1>14. f[5] = ((a2 * Byte + a3) * Byte + a4) * Byte + a5
  <2>1. f[5] = f[5 - 1] * Byte + ByteAt(5)
    BY <1>7
  <2> QED
    BY <2>1, <1>8, <1>13
<1>15. f[5] \in Nat
  <2>1. 5 \in 0 .. L
    BY <1>6
  <2> QED
    BY <2>1, <1>4, <1>6 DEF Written
<1>16. PICK d : d = dec'
  OBVIOUS
<1>17. d = [pos |-> 5, rng |-> Word - 1, code |-> f[5], overrun |-> 0, probs |-> Untouched]
  BY <1>8, <1>14, <1>16 DEF Begin
<1>18. d.pos = 5 /\ d.rng = Word - 1 /\ d.code = f[5] /\ d.overrun = 0 /\ d.probs = Untouched
  BY <1>17
<1>19. PICK z : /\ z = h[0] /\ z.num = 0 /\ z.rng = Word - 1 /\ z.n = 1 /\ z.probs = Untouched
  BY <1>3 DEF FirstStage
<1>20. ReadsAs(d, f, z)
  BY <1>15, <1>18, <1>19 DEF ReadsAs
<1>21. Len(got') = 0
  BY <1>1, <1>4
<1>22. ReadsAs(dec', f, h[Len(got')])
  BY <1>16, <1>19, <1>20, <1>21
<1>23. Flush(h)'
  BY <1>1, <1>3, <1>4, <1>5, <1>22 DEF Flush
<1> QED
  BY <1>1, <1>2, <1>23 DEF CoderInv

\* and when it reads a decision.
LEMMA DecodeInv == ASSUME CoderInv, Decode PROVE CoderInv'
<1>1. /\ asked \in Seq(Decisions) /\ got \in Seq(0 .. 1) /\ Len(got) < Len(asked)
      /\ coding = "decode" /\ coding' = "decode" /\ asked' = asked /\ enc' = enc /\ out' = out
      /\ \A i \in 1 .. Len(got) : got[i] = asked[i].bit
  BY DEF CoderInv, Decode
<1>2. PICK h : Course(h, asked) /\ Flush(h)
  BY <1>1 DEF CoderInv, Encoding
<1>3. PICK N \in Nat, k \in Nat : N = Len(asked) /\ k = Len(got) /\ k + 1 \in 1 .. N /\ (k + 1) - 1 = k
  BY <1>1
<1>4. PICK last : last = h[N].num
  OBVIOUS
<1>5. /\ enc.probs = h[N].probs /\ Len(out) = h[N].n + 4
      /\ \E f : Written(f, out, last) /\ ReadsAs(dec, f, h[k])
  BY <1>1, <1>2, <1>3, <1>4 DEF Flush
<1>6. PICK f : Written(f, out, last) /\ ReadsAs(dec, f, h[k])
  BY <1>5
<1>7. PICK a, o, d : a = asked /\ o = out /\ d = dec
  OBVIOUS
<1>8. \A i \in 0 .. N : h[i] \in Stage /\ InStage(f, o, h[i])
  <2>1. a \in Seq(Decisions) /\ Course(h, a) /\ Written(f, o, h[Len(a)].num) /\ Len(o) = h[Len(a)].n + 4
    BY <1>1, <1>2, <1>3, <1>4, <1>5, <1>6, <1>7
  <2>2. \A i \in 0 .. Len(a) : h[i] \in Stage /\ InStage(f, o, h[i])
    BY <2>1, WithinAll
  <2> QED
    BY <2>2, <1>3, <1>7
<1>9. PICK s, z, m, b : /\ s = h[k] /\ z = h[k + 1] /\ m = asked[k + 1].model /\ b = asked[k + 1].bit
  OBVIOUS
<1>10. m \in Models \cup {Direct} /\ b \in 0 .. 1
  <2>1. asked[k + 1] \in Decisions
    BY <1>1, <1>3
  <2> QED
    BY <2>1, <1>9 DEF Decisions
<1>11. s \in Stage /\ InStage(f, out, z)
  BY <1>3, <1>7, <1>8, <1>9
<1>12. z = NextStage(s, m, b)
  BY <1>2, <1>3, <1>9 DEF Course
<1>13. Seen(dec, m) = b /\ ReadsAs(Refill(Taken(dec, m, b)), f, z)
  <2>1. ReadsAs(d, f, s)
    BY <1>6, <1>7, <1>9
  <2>2. Seen(d, m) = b /\ ReadsAs(Refill(Taken(d, m, b)), f, z)
    BY <2>1, <1>6, <1>10, <1>11, <1>12, DecodeStep
  <2> QED
    BY <2>2, <1>7
<1>14. got' = Append(got, b) /\ dec' = Refill(Taken(dec, m, b))
  BY <1>3, <1>9, <1>13 DEF Decode, Seen, Taken
<1>15. /\ got' \in Seq(0 .. 1) /\ Len(got') = k + 1 /\ got'[k + 1] = b
       /\ \A i \in 1 .. k : got'[i] = got[i]
  BY <1>1, <1>3, <1>10, <1>14
<1>16. \A i \in 1 .. Len(got') : got'[i] = asked'[i].bit
  <2> TAKE i \in 1 .. Len(got')
  <2>1. i \in 1 .. k \/ i = k + 1
    BY <1>15
  <2>2. CASE i \in 1 .. k
    BY <2>2, <1>1, <1>3, <1>15
  <2>3. CASE i = k + 1
    BY <2>3, <1>1, <1>9, <1>15
  <2> QED
    BY <2>1, <2>2, <2>3
<1>17. ReadsAs(dec', f, h[Len(got')])
  BY <1>9, <1>13, <1>14, <1>15
<1>18. Flush(h)'
  BY <1>1, <1>3, <1>4, <1>5, <1>6, <1>17 DEF Flush
<1>19. Len(got') <= Len(asked')
  BY <1>1, <1>3, <1>15
<1> QED
  BY <1>1, <1>2, <1>15, <1>16, <1>18, <1>19 DEF CoderInv

\* So every step keeps it.
LEMMA CoderNextInv == CoderInv /\ [CoderNext]_coderVars => CoderInv'
<1> SUFFICES ASSUME CoderInv, [CoderNext]_coderVars PROVE CoderInv'
  OBVIOUS
<1>1. ASSUME NEW model \in Models \cup {Direct}, NEW bit \in 0 .. 1, Encode(model, bit) PROVE CoderInv'
  BY <1>1, EncodeInv
<1>2. CASE Finish
  BY <1>2, FinishInv
<1>3. CASE Begin
  BY <1>3, BeginInv
<1>4. CASE Decode
  BY <1>4, DecodeInv
<1>5. CASE UNCHANGED coderVars
  BY <1>5 DEF coderVars, CoderInv, Encoding, Flush
<1> QED
  BY <1>1, <1>2, <1>3, <1>4, <1>5 DEF CoderNext

\* And it says what the property does.
LEMMA CoderInvReads == CoderInv => ReadAsWritten
<1> SUFFICES ASSUME CoderInv, coding = "decode"
             PROVE  /\ \A i \in DOMAIN got : got[i] = asked[i].bit
                    /\ Len(got) = Len(asked) => dec.code = 0 /\ dec.overrun = 0 /\ dec.probs = enc.probs
  BY DEF ReadAsWritten
<1>1. \A i \in DOMAIN got : got[i] = asked[i].bit
  BY DEF CoderInv
<1>2. PICK h : Course(h, asked) /\ Flush(h)
  BY DEF CoderInv, Encoding
<1>3. ASSUME Len(got) = Len(asked)
      PROVE  dec.code = 0 /\ dec.overrun = 0 /\ dec.probs = enc.probs
  <2>1. PICK N \in Nat, s \in Stage : N = Len(asked) /\ s = h[N]
    BY <1>2, SMTT(30) DEF CoderInv, Course
  <2>2. PICK f : Written(f, out, s.num) /\ ReadsAs(dec, f, s)
    BY <1>2, <1>3, <2>1 DEF Flush
  <2>3. Len(out) = s.n + 4 /\ enc.probs = s.probs
    BY <1>2, <2>1 DEF Flush
  <2>4. f[s.n + 4] = s.num /\ s.num \in Nat
    BY <2>2, <2>3 DEF Written, Stage
  <2> QED
    BY <2>2, <2>3, <2>4 DEF ReadsAs
<1> QED
  BY <1>1, <1>3

\* For bytes, probabilities and ranges of every width the assumptions allow, any
\* number of models and any sequence of decisions: what the range decoder reads is
\* what the range encoder wrote.
THEOREM ReadAsWrittenCorrect == CoderSpec => []ReadAsWritten
<1>1. CoderInit => CoderInv
  BY CoderInitInv
<1>2. CoderInv /\ [CoderNext]_coderVars => CoderInv'
  BY CoderNextInv
<1>3. CoderInv => ReadAsWritten
  BY CoderInvReads
<1> QED
  BY <1>1, <1>2, <1>3, PTL DEF CoderSpec

(***************************************************************************)
(* Lists of anything, and what stands in the stream at a place.            *)
(***************************************************************************)
IsList(s) == \E S : s \in Seq(S)

LEMMA ListIs ==
  ASSUME NEW s, IsList(s)
  PROVE  Len(s) \in Nat /\ s = [i \in 1 .. Len(s) |-> s[i]] /\ (Len(s) = 0 <=> s = <<>>)
BY DEF IsList

LEMMA OneDecision ==
  ASSUME NEW ctx, NEW v
  PROVE  IsList(D(ctx, v)) /\ Len(D(ctx, v)) = 1 /\ D(ctx, v)[1] = [ctx |-> ctx, v |-> v]
<1>1. PICK x : x = [ctx |-> ctx, v |-> v]
  OBVIOUS
<1>2. <<x>> \in Seq({x}) /\ Len(<<x>>) = 1 /\ <<x>>[1] = x
  OBVIOUS
<1> QED
  BY <1>1, <1>2 DEF D, IsList

LEMMA EmptyList == IsList(<<>>) /\ Len(<<>>) = 0
<1>1. <<>> \in Seq({})
  OBVIOUS
<1> QED
  BY <1>1 DEF IsList

LEMMA Joined ==
  ASSUME NEW s, NEW t, IsList(s), IsList(t)
  PROVE  /\ IsList(s \o t) /\ Len(s \o t) = Len(s) + Len(t)
         /\ \A i \in 1 .. Len(s) : (s \o t)[i] = s[i]
         /\ \A i \in 1 .. Len(t) : (s \o t)[Len(s) + i] = t[i]
<1>1. PICK S : s \in Seq(S)
  BY DEF IsList
<1>2. PICK T : t \in Seq(T)
  BY DEF IsList
<1>3. PICK U : U = S \cup T
  OBVIOUS
<1>4. s \in Seq(U) /\ t \in Seq(U)
  BY <1>1, <1>2, <1>3
<1>5. s \o t \in Seq(U)
  BY <1>4
<1>6. Len(s) \in Nat /\ Len(t) \in Nat
  BY <1>4
<1>7. \A i \in 1 .. Len(t) : (s \o t)[Len(s) + i] = t[i]
  BY <1>4, <1>6
<1> QED
  BY <1>4, <1>5, <1>7 DEF IsList

StandsAt(s, a, d) == a + Len(d) <= Len(s) /\ \A i \in 1 .. Len(d) : s[a + i] = d[i]

LEMMA StandsParts ==
  ASSUME NEW s, NEW a \in Nat, NEW d, NEW e, IsList(s), IsList(d), IsList(e), StandsAt(s, a, d \o e)
  PROVE  StandsAt(s, a, d) /\ StandsAt(s, a + Len(d), e)
<1>1. Len(s) \in Nat /\ Len(d) \in Nat /\ Len(e) \in Nat
  BY ListIs
<1>2. /\ Len(d \o e) = Len(d) + Len(e)
      /\ \A i \in 1 .. Len(d) : (d \o e)[i] = d[i]
      /\ \A i \in 1 .. Len(e) : (d \o e)[Len(d) + i] = e[i]
  BY Joined
<1>3. a + (Len(d) + Len(e)) <= Len(s) /\ \A i \in 1 .. Len(d) + Len(e) : s[a + i] = (d \o e)[i]
  BY <1>2 DEF StandsAt
<1>4. StandsAt(s, a, d)
  BY <1>1, <1>2, <1>3 DEF StandsAt
<1>5. ASSUME NEW i \in 1 .. Len(e) PROVE s[(a + Len(d)) + i] = e[i]
  <2>1. Len(d) + i \in 1 .. Len(d) + Len(e) /\ (a + Len(d)) + i = a + (Len(d) + i)
    BY <1>1
  <2> QED
    BY <1>2, <1>3, <2>1
<1>6. (a + Len(d)) + Len(e) <= Len(s)
  BY <1>1, <1>3
<1> QED
  BY <1>4, <1>5, <1>6 DEF StandsAt

LEMMA StandsLonger ==
  ASSUME NEW s, NEW t, NEW a \in Nat, NEW d, IsList(s), IsList(t), IsList(d), StandsAt(s, a, d)
  PROVE  StandsAt(s \o t, a, d)
<1>1. Len(s) \in Nat /\ Len(d) \in Nat /\ Len(t) \in Nat
  BY ListIs
<1>2. Len(s \o t) = Len(s) + Len(t) /\ \A i \in 1 .. Len(s) : (s \o t)[i] = s[i]
  BY Joined
<1>3. a + Len(d) <= Len(s) /\ \A i \in 1 .. Len(d) : s[a + i] = d[i]
  BY DEF StandsAt
<1>4. ASSUME NEW i \in 1 .. Len(d) PROVE (s \o t)[a + i] = d[i]
  <2>1. a + i \in 1 .. Len(s)
    BY <1>1, <1>3
  <2> QED
    BY <1>2, <1>3, <2>1
<1> QED
  BY <1>1, <1>2, <1>3, <1>4 DEF StandsAt

LEMMA StandsNew ==
  ASSUME NEW s, NEW d, IsList(s), IsList(d)
  PROVE  StandsAt(s \o d, Len(s), d)
<1>1. Len(s) \in Nat /\ Len(d) \in Nat
  BY ListIs
<1>2. /\ Len(s \o d) = Len(s) + Len(d)
      /\ \A i \in 1 .. Len(d) : (s \o d)[Len(s) + i] = d[i]
  BY Joined
<1> QED
  BY <1>1, <1>2 DEF StandsAt

LEMMA JoinedTwice ==
  ASSUME NEW s, NEW t, NEW u, IsList(s), IsList(t), IsList(u)
  PROVE  (s \o t) \o u = s \o (t \o u)
<1>1. PICK S, T, U : s \in Seq(S) /\ t \in Seq(T) /\ u \in Seq(U)
  BY DEF IsList
<1>2. PICK V : V = (S \cup T) \cup U
  OBVIOUS
<1>3. s \in Seq(V) /\ t \in Seq(V) /\ u \in Seq(V)
  BY <1>1, <1>2
<1> QED
  BY <1>3

LEMMA JoinedNothing ==
  ASSUME NEW s, IsList(s)
  PROVE  s \o <<>> = s
<1>1. PICK S : s \in Seq(S)
  BY DEF IsList
<1> QED
  BY <1>1

(***************************************************************************)
(* Reading what stands next.  A read r has e ahead, up to z.               *)
(***************************************************************************)
Ahead(r, e, z) == r.ok = TRUE /\ r.at \in Nat /\ r.at + Len(e) = z /\ StandsAt(stream, r.at, e)

LEMMA ReadsLast ==
  ASSUME NEW r, NEW ctx, NEW v, NEW z, IsList(stream), Ahead(r, D(ctx, v), z)
  PROVE  Ahead(R(r, ctx), <<>>, z) /\ R(r, ctx).v = v
<1>1. PICK a \in Nat : a = r.at
  BY DEF Ahead
<1>2. r.ok /\ a + 1 = z /\ a + 1 <= Len(stream) /\ stream[a + 1] = [ctx |-> ctx, v |-> v]
  BY <1>1, OneDecision DEF Ahead, StandsAt
<1>3. a < Len(stream)
  BY <1>2, ListIs
<1>4. R(r, ctx) = [ok |-> TRUE, at |-> a + 1, v |-> v]
  BY <1>1, <1>2, <1>3 DEF R
<1> QED
  BY <1>2, <1>4, EmptyList DEF Ahead, StandsAt

LEMMA Reads1 ==
  ASSUME NEW r, NEW ctx, NEW v, NEW e, NEW z, IsList(stream), IsList(e), Ahead(r, D(ctx, v) \o e, z)
  PROVE  Ahead(R(r, ctx), e, z) /\ R(r, ctx).v = v
<1>1. PICK a \in Nat : a = r.at
  BY DEF Ahead
<1>2. IsList(D(ctx, v)) /\ Len(D(ctx, v)) = 1
  BY OneDecision
<1>3. PICK n \in Nat : n = Len(e)
  BY ListIs
<1>4. Len(D(ctx, v) \o e) = 1 + n
  <2>1. PICK d : d = D(ctx, v) /\ IsList(d) /\ Len(d) = 1
    BY <1>2
  <2>2. Len(d \o e) = Len(d) + Len(e)
    BY <2>1, Joined
  <2> QED
    BY <1>3, <2>1, <2>2
<1>5. StandsAt(stream, a, D(ctx, v)) /\ StandsAt(stream, a + 1, e)
  <2>1. PICK d : d = D(ctx, v) /\ IsList(d) /\ Len(d) = 1
    BY <1>2
  <2>2. StandsAt(stream, a, d) /\ StandsAt(stream, a + Len(d), e)
    BY <1>1, <2>1, StandsParts DEF Ahead
  <2> QED
    BY <2>1, <2>2
<1>6. Ahead(r, D(ctx, v), a + 1)
  BY <1>1, <1>2, <1>5 DEF Ahead
<1>7. Ahead(R(r, ctx), <<>>, a + 1) /\ R(r, ctx).v = v
  BY <1>6, ReadsLast
<1>8. R(r, ctx).ok = TRUE /\ R(r, ctx).at = a + 1
  BY <1>7, EmptyList DEF Ahead
<1>9. z = (a + 1) + n
  BY <1>1, <1>3, <1>4 DEF Ahead
<1> QED
  BY <1>3, <1>5, <1>7, <1>8, <1>9 DEF Ahead

LEMMA PlusAhead ==
  ASSUME NEW r, NEW n, NEW e, NEW z, Ahead(r, e, z)
  PROVE  Ahead(Plus(r, n), e, z) /\ Plus(r, n).v = n + r.v
BY DEF Ahead, Plus

(***************************************************************************)
(* Lengths.                                                                *)
(***************************************************************************)
LEMMA TwoDecisions ==
  ASSUME NEW c, NEW v, NEW d, NEW w
  PROVE  IsList(D(c, v) \o D(d, w)) /\ Len(D(c, v) \o D(d, w)) = 2
<1>1. PICK s, t : s = D(c, v) /\ t = D(d, w)
  OBVIOUS
<1>2. IsList(s) /\ IsList(t) /\ Len(s) = 1 /\ Len(t) = 1
  BY <1>1, OneDecision
<1>3. IsList(s \o t) /\ Len(s \o t) = Len(s) + Len(t)
  BY <1>2, Joined
<1> QED
  BY <1>1, <1>2, <1>3

LEMMA LengthList ==
  ASSUME NEW coder, NEW code, NEW ps
  PROVE  IsList(Length(coder, code, ps)) /\ IsList(LongLength(coder, code, ps))
<1>1. IsList(LongLength(coder, code, ps))
  BY TwoDecisions DEF LongLength
<1>2. \A v : IsList(D(<<coder, "choice">>, v) \o LongLength(coder, code, ps))
  BY <1>1, OneDecision, Joined
<1> QED
  BY <1>1, <1>2, TwoDecisions DEF Length

\* Two decisions and what is behind them.
LEMMA Reads2 ==
  ASSUME NEW r, NEW c, NEW v, NEW d, NEW w, NEW e, NEW z, IsList(stream), IsList(e),
         Ahead(r, (D(c, v) \o D(d, w)) \o e, z)
  PROVE  /\ R(r, c).v = v /\ R(R(r, c), d).v = w
         /\ Ahead(R(R(r, c), d), e, z)
<1>1. IsList(D(c, v)) /\ IsList(D(d, w))
  BY OneDecision
<1>2. (D(c, v) \o D(d, w)) \o e = D(c, v) \o (D(d, w) \o e)
  BY <1>1, JoinedTwice, SMTT(30)
<1>3. IsList(D(d, w) \o e)
  BY <1>1, Joined
<1>4. Ahead(R(r, c), D(d, w) \o e, z) /\ R(r, c).v = v
  BY <1>2, <1>3, Reads1
<1> QED
  BY <1>4, Reads1

LEMMA ReadsLong ==
  ASSUME NEW r, NEW coder, NEW code \in Nat, code < 2 * Tier + High, NEW ps, NEW e, NEW z, IsList(stream), IsList(e),
         Ahead(r, LongLength(coder, code, ps) \o e, z)
  PROVE  /\ Ahead(ReadLong(R(r, <<coder, "choice2">>), coder, ps), e, z)
         /\ ReadLong(R(r, <<coder, "choice2">>), coder, ps).v = code
<1>t. Tier \in Nat
  BY SizesAssumption
<1>h. High \in Nat \ {0}
  BY SizesAssumption
<1>1. CASE code < 2 * Tier
  <2>1. LongLength(coder, code, ps) = D(<<coder, "choice2">>, 0) \o D(<<coder, "mid", ps>>, code - Tier)
    BY <1>1 DEF LongLength
  <2>2. PICK c, m : c = <<coder, "choice2">> /\ m = <<coder, "mid", ps>>
    OBVIOUS
  <2>3. R(r, c).v = 0 /\ R(R(r, c), m).v = code - Tier /\ Ahead(R(R(r, c), m), e, z)
    BY <2>1, <2>2, Reads2
  <2>4. ReadLong(R(r, c), coder, ps) = Plus(R(R(r, c), m), Tier)
    BY <2>2, <2>3 DEF ReadLong
  <2>5. Tier + (code - Tier) = code
    BY <1>t
  <2> QED
    BY <2>2, <2>3, <2>4, <2>5, PlusAhead
<1>2. CASE ~(code < 2 * Tier)
  <2>0. PICK q \in 0 .. High - 1 : q = code - 2 * Tier /\ q % High = q
    <3>1. PICK q \in 0 .. High - 1 : q = code - 2 * Tier
      BY <1>2, <1>h, <1>t
    <3>2. q \in Int /\ q = High * 0 + q
      BY <1>h
    <3> QED
      BY <1>h, <3>1, <3>2, QuotientIs
  <2>1. LongLength(coder, code, ps) = D(<<coder, "choice2">>, 1) \o D(<<coder, "high">>, code - 2 * Tier)
    BY <1>2, <2>0 DEF LongLength
  <2>2. PICK c, m : c = <<coder, "choice2">> /\ m = <<coder, "high">>
    OBVIOUS
  <2>3. R(r, c).v = 1 /\ R(R(r, c), m).v = code - 2 * Tier /\ Ahead(R(R(r, c), m), e, z)
    BY <2>1, <2>2, Reads2
  <2>4. ReadLong(R(r, c), coder, ps) = Plus(R(R(r, c), m), 2 * Tier)
    BY <2>2, <2>3 DEF ReadLong
  <2>5. 2 * Tier + (code - 2 * Tier) = code
    BY <1>t
  <2> QED
    BY <2>2, <2>3, <2>4, <2>5, PlusAhead
<1> QED
  BY <1>1, <1>2

LEMMA ReadsLength ==
  ASSUME NEW r, NEW coder, NEW code \in Nat, code < 2 * Tier + High, NEW ps, NEW e, NEW z, IsList(stream), IsList(e),
         Ahead(r, Length(coder, code, ps) \o e, z)
  PROVE  Ahead(ReadLength(r, coder, ps), e, z) /\ ReadLength(r, coder, ps).v = code
<1>1. CASE code < Tier
  <2>1. Length(coder, code, ps) = D(<<coder, "choice">>, 0) \o D(<<coder, "low", ps>>, code)
    BY <1>1 DEF Length
  <2>2. PICK c, m : c = <<coder, "choice">> /\ m = <<coder, "low", ps>>
    OBVIOUS
  <2>3. R(r, c).v = 0 /\ R(R(r, c), m).v = code /\ Ahead(R(R(r, c), m), e, z)
    BY <2>1, <2>2, Reads2
  <2>4. ReadLength(r, coder, ps) = R(R(r, c), m)
    BY <2>2, <2>3 DEF ReadLength
  <2> QED
    BY <2>3, <2>4
<1>2. CASE ~(code < Tier)
  <2>1. PICK l : l = LongLength(coder, code, ps) /\ IsList(l)
    BY LengthList
  <2>2. PICK c : c = <<coder, "choice">>
    OBVIOUS
  <2>3. Length(coder, code, ps) = D(c, 1) \o l
    BY <1>2, <2>1, <2>2 DEF Length
  <2>4. (D(c, 1) \o l) \o e = D(c, 1) \o (l \o e) /\ IsList(l \o e)
    BY <2>1, OneDecision, JoinedTwice, Joined
  <2>5. Ahead(R(r, c), l \o e, z) /\ R(r, c).v = 1
    BY <2>3, <2>4, Reads1
  <2>6. ReadLength(r, coder, ps) = ReadLong(R(R(r, c), <<coder, "choice2">>), coder, ps)
    BY <2>2, <2>5 DEF ReadLength
  <2> QED
    BY <2>1, <2>5, <2>6, ReadsLong
<1> QED
  BY <1>1, <1>2

(***************************************************************************)
(* Powers of two.                                                          *)
(***************************************************************************)
LEMMA Powers ==
  /\ Power[0] = 1
  /\ \A i \in 0 .. MaxShift : Power[i] \in Nat \ {0}
  /\ \A i \in 0 .. MaxShift - 1 : Power[i + 1] = 2 * Power[i]
<1>1. /\ Power \in [0 .. 30 -> Nat] /\ Power[0] = 1
      /\ \A i \in 0 .. 29 : Power[i + 1] = 2 * Power[i]
  BY PowersAssumption DEF MaxShift
<1> DEFINE S == {i \in Nat : i <= 30 => Power[i] # 0}
<1>2. 0 \in S
  BY <1>1
<1>3. ASSUME NEW n \in Nat, n \in S PROVE n + 1 \in S
  <2>1. CASE n + 1 <= 30
    <3>1. n \in 0 .. 29 /\ n \in 0 .. 30
      BY <2>1
    <3>2. PICK p \in Nat : p = Power[n]
      BY <1>1, <3>1
    <3>3. p # 0 /\ Power[n + 1] = 2 * p
      BY <1>1, <1>3, <3>1, <3>2
    <3> QED
      BY <3>3
  <2>2. CASE ~(n + 1 <= 30)
    BY <2>2
  <2> QED
    BY <2>1, <2>2
<1>4. Nat \subseteq S
  <2> HIDE DEF S
  <2> QED
    BY <1>2, <1>3, Induction
<1>5. \A i \in 0 .. 30 : Power[i] # 0
  BY <1>4
<1> QED
  BY <1>1, <1>5 DEF MaxShift

\* A number is split by a power of two and the next one.
LEMMA Halves ==
  ASSUME NEW b \in Nat, NEW i \in 0 .. MaxShift - 1
  PROVE  /\ b \div Power[i + 1] \in Nat /\ b \div Power[i] \in Nat /\ Bit(b, i) \in 0 .. 1
         /\ b \div Power[i] = 2 * (b \div Power[i + 1]) + Bit(b, i)
<1>1. PICK p \in Nat \ {0} : p = Power[i] /\ Power[i + 1] = 2 * p
  BY Powers DEF MaxShift
<1>2. PICK u \in Nat \ {0} : u = 2 * p
  BY <1>1
<1>3. PICK q \in Int, s \in 0 .. 2 * p - 1 : q = b \div (2 * p) /\ b = (2 * p) * q + s
  <2>1. b \div u \in Int /\ b % u \in 0 .. u - 1 /\ b = u * (b \div u) + (b % u)
    BY Quotient
  <2> QED
    BY <1>2, <2>1
<1>4. q \in Nat
  <2>1. q < 0 => (2 * p) * q <= -(2 * p)
    BY <1>1
  <2> QED
    BY <1>1, <1>3, <2>1
<1>5. PICK x \in 0 .. 1, t \in 0 .. p - 1 : s = p * x + t
  <2>1. CASE s < p
    <3>1. s = p * 0 + s /\ s \in 0 .. p - 1
      BY <1>1, <2>1
    <3> QED
      BY <3>1
  <2>2. CASE s >= p
    <3>1. s = p * 1 + (s - p) /\ s - p \in 0 .. p - 1
      BY <1>1, <2>2
    <3> QED
      BY <3>1
  <2> QED
    BY <1>1, <2>1, <2>2
<1>6. b = p * (2 * q + x) + t
  <2>1. (2 * p) * q = p * (2 * q)
    BY <1>1, <1>4
  <2>2. p * (2 * q) + p * x = p * (2 * q + x)
    BY <1>1, <1>4
  <2> QED
    BY <1>3, <1>5, <2>1, <2>2
<1>7. PICK y \in Nat : y = 2 * q + x
  BY <1>4, <1>5
<1>8. b \div p = y
  <2>1. b = p * y + t
    BY <1>6, <1>7
  <2>2. b \in Int /\ p \in Nat \ {0} /\ y \in Int /\ t \in 0 .. p - 1
    BY <1>1
  <2> QED
    BY <2>1, <2>2, QuotientIs
<1>9. y % 2 = x
  BY <1>4, <1>5, <1>7
<1> QED
  BY <1>1, <1>3, <1>4, <1>7, <1>8, <1>9 DEF Bit

\* The leading bit of a distance.
LEMMA LeadingIs ==
  ASSUME NEW d \in Nat, d >= 4, d < Power[MaxShift]
  PROVE  /\ Leading(d) \in 2 .. MaxShift - 1
         /\ Power[Leading(d)] <= d /\ d < Power[Leading(d) + 1]
<1>1. \A i \in 0 .. 30 : Power[i] \in Nat
  BY Powers DEF MaxShift
<1> DEFINE T == {i \in Nat : i <= 30 /\ d < Power[i]}
<1>2. 30 \in T
  BY DEF MaxShift
<1>3. PICK m \in T : \A y \in T : m <= y
  BY <1>2, LeastElement
<1>4. Power[0] = 1 /\ Power[1] = 2 /\ Power[2] = 4
  <2>1. Power[0] = 1 /\ Power[0 + 1] = 2 * Power[0] /\ Power[1 + 1] = 2 * Power[1]
    BY Powers DEF MaxShift
  <2> QED
    BY <2>1
<1>5. m # 0 /\ m # 1 /\ m # 2
  BY <1>3, <1>4
<1>6. PICK n : n = m - 1 /\ n \in 2 .. 29 /\ n \in Nat /\ m = n + 1
  BY <1>3, <1>5
<1>7. ~(d < Power[n])
  BY <1>3, <1>6
<1>8. Power[n] <= d /\ d < Power[n + 1]
  BY <1>1, <1>3, <1>6, <1>7
<1>9. \E k \in 2 .. MaxShift - 1 : Power[k] <= d /\ d < Power[k + 1]
  BY <1>6, <1>8 DEF MaxShift
<1> QED
  BY <1>9 DEF Leading

\* A distance is what its slot says and a rest below the power the slot has.
LEMMA SlotIs ==
  ASSUME NEW d \in Nat, d < Power[MaxShift]
  PROVE  /\ Slot(d) \in Nat /\ (Slot(d) < 4 => Slot(d) = d)
         /\ Slot(d) < LastSlot
         /\ Slot(d) >= 4 => /\ Base(Slot(d)) \in Nat /\ d - Base(Slot(d)) \in Nat
                            /\ (d - Base(Slot(d))) % Power[TailBits(Slot(d))] = d - Base(Slot(d))
<1>1. CASE d < 4
  BY <1>1 DEF Slot, LastSlot
<1>2. CASE d >= 4
  <2>1. PICK n \in 2 .. 29 : n = Leading(d) /\ Power[n] <= d /\ d < Power[n + 1]
    BY <1>2, LeadingIs DEF MaxShift
  <2>2. PICK i \in 0 .. MaxShift - 1 : i = n - 1 /\ i + 1 = n
    BY DEF MaxShift
  <2>3. PICK p \in Nat \ {0} : p = Power[i] /\ Power[i + 1] = 2 * p /\ p = Power[n - 1] /\ Power[n] = 2 * p
    BY <2>2, Powers DEF MaxShift
  <2>4. PICK x \in 0 .. 1 : x = Bit(d, i)
    BY <2>2, Halves
  <2>a. x = Bit(d, n - 1)
    BY <2>2, <2>4
  <2>b. d \div p = 2 * (d \div (2 * p)) + x
    <3>1. d \div Power[i] = 2 * (d \div Power[i + 1]) + Bit(d, i)
      BY Halves
    <3> QED
      BY <2>3, <2>4, <3>1
  <2>5. Power[n + 1] = 2 * (2 * p)
    <3>1. n \in 0 .. MaxShift - 1
      BY DEF MaxShift
    <3>2. Power[n + 1] = 2 * Power[n]
      BY <3>1, Powers
    <3> QED
      BY <2>3, <3>2
  <2>6. d \div (2 * p) = 1
    <3>1. d = (2 * p) * 1 + (d - 2 * p) /\ d - 2 * p \in 0 .. 2 * p - 1 /\ 2 * p \in Nat \ {0}
      BY <2>1, <2>3, <2>5
    <3> QED
      BY <3>1, QuotientIs
  <2>7. d \div p = 2 + x
    BY <2>b, <2>6
  <2>8. PICK s \in 0 .. p - 1 : d = p * (2 + x) + s
    <3>0. d \in Int /\ p \in Nat \ {0}
      OBVIOUS
    <3>1. d \div p \in Int /\ d % p \in 0 .. p - 1 /\ d = p * (d \div p) + (d % p)
      BY <3>0, Quotient
    <3> QED
      BY <2>7, <3>1
  <2>9. Slot(d) = 2 * n + x
    BY <1>2, <2>1, <2>a DEF Slot
  <2>10. (2 * n + x) % 2 = x /\ (2 * n + x) \div 2 = n
    BY <2>1, <2>4
  <2>11. Base(Slot(d)) = (2 + x) * p
    BY <2>3, <2>9, <2>10 DEF Base, TailBits
  <2>12. (2 + x) * p \in Nat /\ (2 + x) * p = p * (2 + x)
    BY <2>3, <2>4
  <2>13. d - Base(Slot(d)) = s
    BY <2>3, <2>8, <2>11, <2>12
  <2>14. Power[TailBits(Slot(d))] = p
    BY <2>3, <2>9, <2>10 DEF TailBits
  <2>15. s % p = s
    <3>1. s \in Int /\ s = p * 0 + s /\ p \in Nat \ {0}
      OBVIOUS
    <3> QED
      BY <3>1, QuotientIs
  <2>16. (d - Base(Slot(d))) % Power[TailBits(Slot(d))] = d - Base(Slot(d))
    BY <2>13, <2>14, <2>15
  <2> QED
    BY <2>1, <2>4, <2>8, <2>9, <2>11, <2>12, <2>13, <2>16 DEF LastSlot
<1> QED
  BY <1>1, <1>2

(***************************************************************************)
(* Distances.                                                              *)
(***************************************************************************)
LEMMA DistanceList ==
  ASSUME NEW d, NEW code
  PROVE  IsList(Distance(d, code)) /\ \A slot, tail : IsList(SlotTail(slot, tail))
<1>1. ASSUME NEW slot, NEW tail PROVE IsList(SlotTail(slot, tail))
  BY EmptyList, OneDecision, TwoDecisions DEF SlotTail
<1>2. ASSUME NEW ctx, NEW v, NEW e, IsList(e) PROVE IsList(D(ctx, v) \o e)
  BY <1>2, OneDecision, Joined
<1>3. CASE d = EndMarker
  <2>1. PICK e : e = D(<<"direct">>, Ones) \o D(<<"align">>, Ones) /\ IsList(e)
    BY TwoDecisions
  <2>2. Distance(d, code) = D(<<"posSlot", LenState(code)>>, LastSlot) \o e
    BY <1>3, <2>1 DEF Distance
  <2>3. PICK c : c = <<"posSlot", LenState(code)>>
    OBVIOUS
  <2>4. IsList(D(c, LastSlot) \o e)
    BY <1>2, <2>1
  <2> QED
    BY <1>1, <2>2, <2>3, <2>4
<1>4. CASE d # EndMarker
  BY <1>1, <1>2, <1>4 DEF Distance
<1> QED
  BY <1>1, <1>3, <1>4

\* A tail that is a natural number is never taken for all ones.
LEMMA ReadsTail ==
  ASSUME NEW r, NEW slot \in Nat, NEW tail \in Nat, NEW e, NEW z, IsList(stream), IsList(e), slot >= 4,
         r.v = slot, Base(slot) \in Nat,
         Ahead(r, SlotTail(slot, tail) \o e, z)
  PROVE  Ahead(ReadTail(r), e, z) /\ ReadTail(r).v = Base(slot) + tail
<1>1. CASE slot < ModelSlots
  <2>1. PICK c : c = <<"posDecoders", Base(slot) - slot>>
    OBVIOUS
  <2>2. SlotTail(slot, tail) = D(c, tail)
    BY <1>1, <2>1 DEF SlotTail
  <2>3. Ahead(R(r, c), e, z) /\ R(r, c).v = tail
    BY <2>2, Reads1
  <2>4. ReadTail(r) = Plus(R(r, c), Base(slot))
    BY <1>1, <2>1 DEF ReadTail
  <2> QED
    BY <2>3, <2>4, PlusAhead
<1>2. CASE ~(slot < ModelSlots)
  <2>1. PICK p \in Nat \ {0} : p = Power[AlignBits]
    BY Powers, SizesAssumption
  <2>2. PICK q \in Int, s \in 0 .. p - 1 : q = tail \div p /\ s = tail % p /\ tail = p * q + s
    <3>0. tail \in Int /\ p \in Nat \ {0}
      OBVIOUS
    <3>1. tail \div p \in Int /\ tail % p \in 0 .. p - 1 /\ tail = p * (tail \div p) + (tail % p)
      BY <3>0, Quotient
    <3> QED
      BY <3>1
  <2>3. q \in Nat
    <3>1. q < 0 => p * q <= -p
      BY <2>1
    <3> QED
      BY <2>1, <2>2, <3>1
  <2>4. PICK c, m : c = <<"direct">> /\ m = <<"align">>
    OBVIOUS
  <2>5. SlotTail(slot, tail) = D(c, q) \o D(m, s)
    <3>1. SlotTail(slot, tail) = D(c, tail \div Power[AlignBits]) \o D(m, tail % Power[AlignBits])
      BY <1>2, <2>4 DEF SlotTail
    <3> QED
      BY <2>1, <2>2, <3>1
  <2>6. R(r, c).v = q /\ R(R(r, c), m).v = s /\ Ahead(R(R(r, c), m), e, z)
    BY <2>5, Reads2
  <2>7. q # Ones
    BY <2>3 DEF Ones
  <2>8. ReadTail(r) = ReadDirect(r, Base(slot))
    BY <1>2 DEF ReadTail
  <2>9. ReadDirect(r, Base(slot)) = Plus(R(R(r, c), m), Base(slot) + q * p)
    BY <2>1, <2>4, <2>6, <2>7 DEF ReadDirect
  <2>10. (Base(slot) + q * p) + s = Base(slot) + tail
    <3>1. PICK k \in Nat : k = q * p /\ k = p * q
      BY <2>1, <2>3
    <3> QED
      BY <2>2, <3>1
  <2> QED
    BY <2>6, <2>8, <2>9, <2>10, PlusAhead
<1> QED
  BY <1>1, <1>2

LEMMA ReadsDistance ==
  ASSUME NEW r, NEW d \in Nat, d < DictSize, NEW code \in Nat, NEW e, NEW z, IsList(stream), IsList(e),
         Ahead(r, Distance(d, code) \o e, z)
  PROVE  Ahead(ReadDistance(r, code), e, z) /\ ReadDistance(r, code).v = d
<1>1. d < Power[MaxShift]
  <2>1. PICK t \in Nat : t = Power[MaxShift]
    BY Powers DEF MaxShift
  <2>2. DictSize \in 1 .. t
    BY <2>1, SizesAssumption
  <2> QED
    BY <2>1, <2>2
<1>2. PICK slot \in Nat : slot = Slot(d)
  BY <1>1, SlotIs
<1>3. PICK c : c = <<"posSlot", LenState(code)>> /\ c = <<"posSlot", IF code > 3 THEN 3 ELSE code>>
  <2>1. LenState(code) = IF code > 3 THEN 3 ELSE code
    BY DEF LenState, LenToPosStates
  <2> QED
    BY <2>1
<1>4. d # EndMarker
  BY DEF EndMarker
<1>5. PICK l : l = SlotTail(slot, (d - Base(slot)) % Power[TailBits(slot)]) /\ IsList(l)
  BY DistanceList
<1>6. Distance(d, code) = D(c, slot) \o l
  BY <1>2, <1>3, <1>4, <1>5 DEF Distance
<1>7. (D(c, slot) \o l) \o e = D(c, slot) \o (l \o e) /\ IsList(l \o e)
  BY <1>5, OneDecision, JoinedTwice, Joined, SMTT(30)
<1>8. Ahead(R(r, c), l \o e, z) /\ R(r, c).v = slot
  BY <1>6, <1>7, Reads1
<1>9. ReadDistance(r, code) = ReadTail(R(r, c))
  BY <1>3 DEF ReadDistance
<1>10. CASE slot < 4
  <2>1. l = <<>> /\ slot = d
    BY <1>1, <1>2, <1>5, <1>10, SlotIs DEF SlotTail
  <2>2. <<>> \o e = e
    BY DEF IsList
  <2>3. ReadTail(R(r, c)) = R(r, c)
    BY <1>8, <1>10 DEF ReadTail
  <2> QED
    BY <1>8, <1>9, <2>1, <2>2, <2>3
<1>11. CASE slot >= 4
  <2>1. PICK b \in Nat, tail \in Nat :
          b = Base(slot) /\ tail = d - b /\ (d - Base(slot)) % Power[TailBits(slot)] = tail
    BY <1>1, <1>2, <1>11, SlotIs
  <2>2. l = SlotTail(slot, tail)
    BY <1>5, <2>1
  <2>3. Ahead(ReadTail(R(r, c)), e, z) /\ ReadTail(R(r, c)).v = b + tail
    BY <1>8, <1>11, <2>1, <2>2, ReadsTail
  <2>4. b + tail = d
    BY <2>1
  <2> QED
    BY <1>9, <2>3, <2>4
<1> QED
  BY <1>10, <1>11

LEMMA ReadsEndMarker ==
  ASSUME NEW r, NEW z, IsList(stream), Ahead(r, Distance(EndMarker, 0), z)
  PROVE  Ahead(ReadDistance(r, 0), <<>>, z) /\ ReadDistance(r, 0).v = EndMarker
<1>1. PICK c, m, n : c = <<"posSlot", 0>> /\ m = <<"direct">> /\ n = <<"align">>
  OBVIOUS
<1>2. LenState(0) = 0
  BY DEF LenState, LenToPosStates
<1>3. PICK l : l = D(m, Ones) \o D(n, Ones) /\ IsList(l)
  BY TwoDecisions
<1>4. Distance(EndMarker, 0) = D(c, LastSlot) \o l
  BY <1>1, <1>2, <1>3 DEF Distance
<1>5. Ahead(R(r, c), l, z) /\ R(r, c).v = LastSlot
  <2>1. Ahead(r, D(c, LastSlot) \o l, z)
    BY <1>4
  <2> QED
    BY <1>3, <2>1, Reads1
<1>6. PICK q : q = R(r, c)
  OBVIOUS
<1>7. IsList(D(m, Ones)) /\ IsList(D(n, Ones))
  BY OneDecision
<1>8. Ahead(R(q, m), D(n, Ones), z) /\ R(q, m).v = Ones
  BY <1>3, <1>5, <1>6, <1>7, Reads1
<1>9. Ahead(R(R(q, m), n), <<>>, z) /\ R(R(q, m), n).v = Ones
  BY <1>8, ReadsLast
<1>10. ReadDistance(r, 0) = ReadTail(q)
  BY <1>1, <1>6 DEF ReadDistance
<1>11. ~(q.v < 4) /\ ~(q.v < ModelSlots) /\ q.v = LastSlot
  BY <1>5, <1>6, SizesAssumption, SMTT(30) DEF LastSlot
<1>12. ReadTail(q) = ReadDirect(q, Base(q.v))
  BY <1>11 DEF ReadTail
<1>13. PICK f : f = R(R(q, m), n)
  OBVIOUS
<1>14. ReadDirect(q, Base(q.v)) = [ok |-> f.ok, at |-> f.at, v |-> EndMarker]
  BY <1>1, <1>8, <1>9, <1>11, <1>13 DEF ReadDirect
<1> QED
  BY <1>9, <1>10, <1>12, <1>13, <1>14 DEF Ahead

(***************************************************************************)
(* Literals.  The bits read so far, the byte they begin and whether the    *)
(* prediction still holds are known at every bit.                          *)
(***************************************************************************)
Letters == 0 .. Power[ByteWidth] - 1

LEMMA LetterBits ==
  ASSUME NEW b \in Letters, NEW i \in 0 .. ByteWidth
  PROVE  /\ b \in Nat /\ b \div Power[i] \in Nat
         /\ b \div Power[ByteWidth] = 0 /\ b \div Power[0] = b
<1>w. ByteWidth \in 1 .. 30 /\ MaxShift = 30
  BY SizesAssumption DEF MaxShift
<1>1. PICK p \in Nat \ {0} : p = Power[ByteWidth]
  BY <1>w, Powers
<1>2. b \in Nat /\ b < p
  BY <1>1 DEF Letters
<1>3. b \div p = 0
  <2>1. b = p * 0 + b /\ b \in 0 .. p - 1
    BY <1>1, <1>2
  <2> QED
    BY <2>1, QuotientIs
<1>4. b \div 1 = b
  BY <1>2
<1>5. b \div Power[i] \in Nat
  <2>1. CASE i < 30
    <3>1. i \in 0 .. MaxShift - 1
      BY <1>w, <2>1
    <3> QED
      BY <1>2, <3>1, Halves
  <2>2. CASE i = 30
    <3>1. i = ByteWidth
      BY <1>w, <2>2
    <3> QED
      BY <1>1, <1>3, <3>1
  <2> QED
    BY <1>w, <2>1, <2>2
<1> QED
  BY <1>1, <1>2, <1>3, <1>4, <1>5, Powers

LEMMA LiteralList ==
  ASSUME NEW coder, NEW done, NEW b
  PROVE  /\ IsList(Literal(coder, done, b)) /\ Len(Literal(coder, done, b)) = ByteWidth
         /\ \A k \in 1 .. ByteWidth :
              Literal(coder, done, b)[k] =
                [ctx |-> LitContext(coder, done, ByteWidth - k, b \div Power[ByteWidth - k + 1]),
                 v |-> Bit(b, ByteWidth - k)]
<1>w. ByteWidth \in Nat
  BY SizesAssumption
<1> DEFINE f(k) == [ctx |-> LitContext(coder, done, ByteWidth - k, b \div Power[ByteWidth - k + 1]),
                    v |-> Bit(b, ByteWidth - k)]
           S == {f(k) : k \in 1 .. ByteWidth}
           l == [k \in 1 .. ByteWidth |-> f(k)]
<1>1. l = Literal(coder, done, b)
  BY DEF Literal
<1>2. \A k \in 1 .. ByteWidth : f(k) \in S
  OBVIOUS
<1>3. \A k \in 1 .. ByteWidth : l[k] = f(k)
  OBVIOUS
<1>4. l \in Seq(S) /\ Len(l) = ByteWidth
  <2> HIDE DEF f, S
  <2> QED
    BY <1>w, <1>2
<1>5. IsList(l)
  <2> HIDE DEF l, S
  <2> QED
    BY <1>4 DEF IsList
<1> QED
  BY <1>1, <1>3, <1>4, <1>5

\* What `Bits` computes is the only function that goes on as it does.
First(r) == [r |-> r, sym |-> 1, follow |-> reader.state >= 7]
Expected(k) == Bit(Predicted(reader, back), ByteWidth - k)

LEMMA BitsAre ==
  ASSUME NEW r, NEW g, g = [k \in 0 .. ByteWidth |-> IF k = 0 THEN First(r) ELSE NextBit(g[k - 1], Expected(k))]
  PROVE  Bits(r) = g
<1>w. ByteWidth \in Nat
  BY SizesAssumption
<1> DEFINE Goes(f) == f = [k \in 0 .. ByteWidth |-> IF k = 0 THEN First(r) ELSE NextBit(f[k - 1], Expected(k))]
           f == CHOOSE h : Goes(h)
<1>1. Bits(r) = f
  BY DEF Bits, First, Expected
<1>2. Goes(g)
  OBVIOUS
<1>3. Goes(f)
  <2> HIDE DEF Goes
  <2> QED
    BY <1>2
<1>4. f[0] = First(r) /\ \A k \in 1 .. ByteWidth : f[k] = NextBit(f[k - 1], Expected(k))
  <2> HIDE DEF f
  <2> QED
    BY <1>3, <1>w
<1>5. g[0] = First(r) /\ \A k \in 1 .. ByteWidth : g[k] = NextBit(g[k - 1], Expected(k))
  BY <1>2, <1>w
<1>6. /\ DOMAIN f = 0 .. ByteWidth /\ f = [k \in 0 .. ByteWidth |-> f[k]]
      /\ DOMAIN g = 0 .. ByteWidth /\ g = [k \in 0 .. ByteWidth |-> g[k]]
  <2> HIDE DEF f
  <2> QED
    BY <1>2, <1>3
<1> DEFINE S == {k \in Nat : k <= ByteWidth => f[k] = g[k]}
<1> HIDE DEF Goes, f
<1>7. 0 \in S
  BY <1>4, <1>5
<1>8. ASSUME NEW n \in Nat, n \in S PROVE n + 1 \in S
  <2>1. CASE n + 1 <= ByteWidth
    <3>1. PICK k \in 1 .. ByteWidth : k = n + 1 /\ k - 1 = n
      BY <2>1, <1>w
    <3>2. f[n] = g[n]
      BY <1>8, <2>1, <1>w
    <3>3. f[k] = NextBit(f[n], Expected(k)) /\ g[k] = NextBit(g[n], Expected(k))
      BY <1>4, <1>5, <3>1
    <3>4. f[k] = g[k]
      BY <3>2, <3>3
    <3> QED
      BY <3>1, <3>4
  <2>2. CASE ~(n + 1 <= ByteWidth)
    BY <2>2
  <2> QED
    BY <2>1, <2>2
<1>9. Nat \subseteq S
  <2> HIDE DEF S
  <2> QED
    BY <1>7, <1>8, Induction
<1>10. ASSUME NEW k \in 0 .. ByteWidth PROVE f[k] = g[k]
  <2>1. k \in Nat /\ k <= ByteWidth
    BY <1>w
  <2>2. k \in S
    BY <1>9, <2>1
  <2> QED
    BY <2>1, <2>2
<1> QED
  BY <1>1, <1>6, <1>10

\* After k bits: where the read is, the byte so far, and whether it is as expected.
After(r, b, k) == IF k = 0 THEN r ELSE [ok |-> TRUE, at |-> r.at + k, v |-> Bit(b, ByteWidth - k)]
Agrees(b, k) ==
  reader.state >= 7 /\ b \div Power[ByteWidth - k] = Predicted(reader, back) \div Power[ByteWidth - k]
BitsOf(r, b) ==
  [k \in 0 .. ByteWidth |->
     [r |-> After(r, b, k), sym |-> Power[k] + b \div Power[ByteWidth - k], follow |-> Agrees(b, k)]]

LEMMA BitsStart ==
  ASSUME NEW r, NEW b \in Letters, reader.state >= 7 => Predicted(reader, back) \in Letters
  PROVE  BitsOf(r, b)[0] = First(r)
<1>w. ByteWidth \in Nat /\ ByteWidth \in 0 .. ByteWidth
  BY SizesAssumption
<1>1. b \div Power[ByteWidth] = 0 /\ Power[0] = 1
  BY <1>w, LetterBits, Powers
<1>2. Agrees(b, 0) <=> reader.state >= 7
  <2>1. CASE reader.state >= 7
    <3>1. Predicted(reader, back) \div Power[ByteWidth] = 0
      BY <1>w, <2>1, LetterBits
    <3> QED
      BY <1>1, <1>w, <2>1, <3>1 DEF Agrees
  <2>2. CASE ~(reader.state >= 7)
    BY <2>2 DEF Agrees
  <2> QED
    BY <2>1, <2>2
<1>3. Agrees(b, 0) = (reader.state >= 7)
  BY <1>2 DEF Agrees
<1>4. After(r, b, 0) = r
  BY DEF After
<1>5. Power[0] + b \div Power[ByteWidth - 0] = 1
  BY <1>1, <1>w
<1>6. BitsOf(r, b)[0] = [r |-> After(r, b, 0), sym |-> Power[0] + b \div Power[ByteWidth - 0], follow |-> Agrees(b, 0)]
  BY <1>w DEF BitsOf
<1> QED
  BY <1>3, <1>4, <1>5, <1>6 DEF First

\* A bit more: the models it was written with are asked for, and it is the next bit.
LEMMA BitsStep ==
  ASSUME NEW r, NEW b \in Letters, reader.state >= 7 => Predicted(reader, back) \in Letters,
         IsList(stream), NEW z, Ahead(r, Literal(reader, back, b), z), NEW k \in 1 .. ByteWidth
  PROVE  BitsOf(r, b)[k] = NextBit(BitsOf(r, b)[k - 1], Expected(k))
<1> DEFINE m == Predicted(reader, back)
<1>w. ByteWidth \in 1 .. 30 /\ ByteWidth \in Nat
  BY SizesAssumption DEF MaxShift
<1>1. PICK i \in 0 .. MaxShift - 1, j \in 0 .. ByteWidth :
        /\ i = ByteWidth - k /\ i + 1 = ByteWidth - k + 1 /\ i + 1 = ByteWidth - (k - 1)
        /\ j = k - 1 /\ j = ByteWidth - 1 - i /\ j + 1 = k /\ j \in 0 .. MaxShift - 1
  BY <1>w DEF MaxShift
<1>2. PICK y \in Nat, x \in Nat, t \in 0 .. 1 :
        y = b \div Power[i + 1] /\ x = b \div Power[i] /\ t = Bit(b, i) /\ x = 2 * y + t
  <2>1. b \in Nat
    BY <1>w, LetterBits
  <2> QED
    BY <2>1, Halves, SMTT(30)
<1>3. PICK q \in Nat : q = Power[j] /\ Power[k] = 2 * q
  BY <1>1, Powers DEF MaxShift
<1>4. PICK a \in Nat : a = r.at /\ r.ok = TRUE
  BY DEF Ahead
<1>5. PICK o : o = After(r, b, j)
  OBVIOUS
<1>6. o.ok = TRUE /\ o.at = a + j
  BY <1>4, <1>5 DEF After
<1>7. PICK f : f = Agrees(b, j)
  OBVIOUS
<1>8. PICK c : c = <<"lit", LitState(back), IF f THEN 1 + Bit(m, i) ELSE 0, q + y>>
  OBVIOUS
<1>9. c = LitContext(reader, back, ByteWidth - k, b \div Power[ByteWidth - k + 1])
  <2>1. f <=> (reader.state >= 7 /\ y = m \div Power[i + 1])
    BY <1>1, <1>2, <1>7 DEF Agrees
  <2>2. LitContext(reader, back, i, y) =
          <<"lit", LitState(back), IF reader.state >= 7 /\ y = m \div Power[i + 1] THEN 1 + Bit(m, i) ELSE 0,
            Power[ByteWidth - 1 - i] + y>>
    BY DEF LitContext
  <2>3. c = LitContext(reader, back, i, y)
    BY <1>1, <1>3, <1>8, <2>1, <2>2
  <2> QED
    BY <1>1, <1>2, <2>3
<1>10. o.at < Len(stream) /\ stream[o.at + 1] = [ctx |-> c, v |-> t]
  <2>1. /\ Len(Literal(reader, back, b)) = ByteWidth
        /\ Literal(reader, back, b)[k] = [ctx |-> c, v |-> t]
    <3>1. Bit(b, ByteWidth - k) = t
      BY <1>1, <1>2
    <3> QED
      BY <1>9, <3>1, LiteralList
  <2>2. a + ByteWidth <= Len(stream) /\ stream[a + k] = [ctx |-> c, v |-> t]
    BY <1>4, <1>w, <2>1 DEF Ahead, StandsAt
  <2>3. o.at + 1 = a + k /\ Len(stream) \in Nat
    BY <1>1, <1>4, <1>6, ListIs
  <2>4. PICK l \in Nat : l = Len(stream)
    BY <2>3
  <2>5. o.at = a + j /\ a + j < l
    BY <1>1, <1>6, <1>w, <2>2, <2>4
  <2> QED
    BY <2>2, <2>3, <2>4, <2>5
<1>11. R(o, c) = [ok |-> TRUE, at |-> o.at + 1, v |-> t]
  BY <1>6, <1>10 DEF R
<1>12. R(o, c) = After(r, b, k)
  <2>1. After(r, b, k) = [ok |-> TRUE, at |-> a + k, v |-> t]
    BY <1>1, <1>2, <1>4 DEF After
  <2>2. o.at + 1 = a + k
    BY <1>1, <1>4, <1>6
  <2> QED
    BY <1>11, <2>1, <2>2
<1>13. Agrees(b, k) <=> (f /\ t = Bit(m, i))
  <2>1. f <=> (reader.state >= 7 /\ y = m \div Power[i + 1])
    BY <1>1, <1>2, <1>7 DEF Agrees
  <2>2. Agrees(b, k) <=> (reader.state >= 7 /\ x = m \div Power[i])
    BY <1>1, <1>2 DEF Agrees
  <2>3. CASE reader.state >= 7
    <3>1. m \in Nat
      BY <1>w, <2>3, LetterBits
    <3>2. PICK y2 \in Nat, x2 \in Nat, t2 \in 0 .. 1 :
            y2 = m \div Power[i + 1] /\ x2 = m \div Power[i] /\ t2 = Bit(m, i) /\ x2 = 2 * y2 + t2
      <4>1. PICK n \in Nat : n = m
        BY <3>1
      <4>2. /\ n \div Power[i + 1] \in Nat /\ n \div Power[i] \in Nat /\ Bit(n, i) \in 0 .. 1
            /\ n \div Power[i] = 2 * (n \div Power[i + 1]) + Bit(n, i)
        BY Halves
      <4> QED
        BY <4>1, <4>2
    <3>3. x = x2 <=> (y = y2 /\ t = t2)
      BY <1>2, <3>2
    <3> QED
      BY <2>1, <2>2, <2>3, <3>2, <3>3
  <2>4. CASE ~(reader.state >= 7)
    BY <2>1, <2>2, <2>4
  <2> QED
    BY <2>3, <2>4
<1>14. PICK s \in Nat : s = q + y /\ 2 * s + t = Power[k] + b \div Power[ByteWidth - k]
  <2>1. q + y \in Nat /\ 2 * (q + y) + t = 2 * q + x
    BY <1>2
  <2>2. Power[k] + b \div Power[ByteWidth - k] = 2 * q + x
    BY <1>1, <1>2, <1>3
  <2> QED
    BY <2>1, <2>2
<1>15. PICK acc : acc = [r |-> o, sym |-> s, follow |-> f]
  OBVIOUS
<1>16. BitsOf(r, b)[k - 1] = acc
  <2>1. k - 1 = j /\ ByteWidth - j = i + 1 /\ j \in 0 .. ByteWidth
    BY <1>1, <1>w
  <2>2. BitsOf(r, b)[j] = [r |-> After(r, b, j), sym |-> Power[j] + b \div Power[ByteWidth - j], follow |-> Agrees(b, j)]
    BY <2>1 DEF BitsOf
  <2>3. Power[j] + b \div Power[ByteWidth - j] = s
    BY <1>2, <1>3, <1>14, <2>1
  <2> QED
    BY <1>5, <1>7, <1>15, <2>1, <2>2, <2>3
<1>17. NextBit(acc, Expected(k)) = [r |-> After(r, b, k), sym |-> 2 * s + t, follow |-> f /\ t = Bit(m, i)]
  <2>1. Expected(k) = Bit(m, i)
    BY <1>1 DEF Expected
  <2>2. R(acc.r, <<"lit", LitState(back), IF acc.follow THEN 1 + Bit(m, i) ELSE 0, acc.sym>>) = R(o, c)
    BY <1>8, <1>14, <1>15
  <2>3. R(o, c).v = t
    BY <1>11
  <2>4. acc.sym = s /\ acc.follow = f
    BY <1>15
  <2>5. PICK nx : nx = R(o, c)
    OBVIOUS
  <2>6. NextBit(acc, Bit(m, i)) = [r |-> nx, sym |-> 2 * acc.sym + nx.v, follow |-> acc.follow /\ nx.v = Bit(m, i)]
    BY <2>2, <2>5 DEF NextBit
  <2> QED
    BY <1>12, <2>1, <2>3, <2>4, <2>5, <2>6
<1>18. BitsOf(r, b)[k] = [r |-> After(r, b, k), sym |-> Power[k] + b \div Power[ByteWidth - k], follow |-> Agrees(b, k)]
  BY <1>w DEF BitsOf
<1>19. Agrees(b, k) = (f /\ t = Bit(m, i))
  BY <1>13 DEF Agrees
<1> QED
  BY <1>14, <1>16, <1>17, <1>18, <1>19

LEMMA ReadsLiteral ==
  ASSUME NEW r, NEW b \in Letters, reader.state >= 7 => Predicted(reader, back) \in Letters,
         IsList(stream), NEW z, Ahead(r, Literal(reader, back, b), z)
  PROVE  Ahead(ReadLiteral(r), <<>>, z) /\ ReadLiteral(r).v = b
<1>w. ByteWidth \in Nat \ {0} /\ ByteWidth \in 0 .. ByteWidth /\ 0 \in 0 .. ByteWidth
  BY SizesAssumption
<1>1. PICK g : g = BitsOf(r, b)
  OBVIOUS
<1>2. g[0] = First(r) /\ \A k \in 1 .. ByteWidth : g[k] = NextBit(g[k - 1], Expected(k))
  BY <1>1, BitsStart, BitsStep
<1>3. DOMAIN g = 0 .. ByteWidth /\ g = [k \in 0 .. ByteWidth |-> g[k]]
  BY <1>1 DEF BitsOf
<1>4. \A k \in 0 .. ByteWidth : g[k] = IF k = 0 THEN First(r) ELSE NextBit(g[k - 1], Expected(k))
  BY <1>2, <1>w
<1>5. g = [k \in 0 .. ByteWidth |-> IF k = 0 THEN First(r) ELSE NextBit(g[k - 1], Expected(k))]
  BY <1>3, <1>4
<1>6. Bits(r) = g
  BY <1>5, BitsAre
<1>7. PICK last : last = g[ByteWidth]
  OBVIOUS
<1>8. /\ last.r = After(r, b, ByteWidth)
      /\ last.sym = Power[ByteWidth] + b \div Power[ByteWidth - ByteWidth]
  BY <1>1, <1>7, <1>w DEF BitsOf
<1>9. PICK a \in Nat : a = r.at
  BY DEF Ahead
<1>10. last.r.ok = TRUE /\ last.r.at = a + ByteWidth
  BY <1>8, <1>9, <1>w DEF After
<1>11. last.sym - Power[ByteWidth] = b
  <2>1. b \div Power[0] = b /\ b \in Nat
    BY <1>w, LetterBits
  <2>2. PICK p \in Nat : p = Power[ByteWidth]
    BY SizesAssumption, Powers
  <2>3. last.sym = p + b
    BY <1>8, <1>w, <2>1, <2>2
  <2> QED
    BY <2>1, <2>2, <2>3
<1>12. ReadLiteral(r) = [ok |-> TRUE, at |-> a + ByteWidth, v |-> b]
  BY <1>6, <1>7, <1>10, <1>11 DEF ReadLiteral
<1>13. z = a + ByteWidth /\ a + ByteWidth <= Len(stream)
  BY <1>9, LiteralList DEF Ahead, StandsAt
<1> QED
  BY <1>9, <1>12, <1>13, <1>w, EmptyList DEF Ahead, StandsAt


(***************************************************************************)
(* A symbol that stands in the stream is found.                            *)
(***************************************************************************)
Here == [ok |-> TRUE, at |-> taken, v |-> 0]
IsMatch(coder, n) == <<"isMatch", coder.state, PosState(n)>>

\* A symbol of that kind, up to z.
Finds(f, kind, i, len, dist, z) ==
  f.kind = kind /\ f.r.ok = TRUE /\ f.r.at = z /\ f.i = i /\ f.len = len /\ f.dist = dist

LEMMA SymbolIs ==
  ASSUME NEW m, m = R(Here, IsMatch(reader, Len(back))),
         NEW rep, rep = R(m, <<"isRep", reader.state>>)
  PROVE  /\ m.v = 0 => Symbol = Found("literal", ReadLiteral(m), 0, 1, 0)
         /\ m.v = 1 /\ rep.v = 0 => Symbol = FoundMatch(ReadLength(rep, "len", PosState(Len(back))))
         /\ m.v = 1 /\ rep.v = 1 => Symbol = FoundRep(rep, reader.state, PosState(Len(back)))
BY DEF Symbol, Here, IsMatch

LEMMA FindsLiteral ==
  ASSUME IsList(stream), NEW b \in Letters, reader.state >= 7 => Predicted(reader, back) \in Letters, NEW z,
         Ahead(Here, D(IsMatch(reader, Len(back)), 0) \o Literal(reader, back, b), z)
  PROVE  Finds(Symbol, "literal", 0, 1, 0, z) /\ Symbol.r.v = b
<1>1. PICK c, l : c = IsMatch(reader, Len(back)) /\ l = Literal(reader, back, b) /\ IsList(l)
  BY LiteralList
<1>2. Ahead(R(Here, c), l, z) /\ R(Here, c).v = 0
  BY <1>1, Reads1
<1>3. PICK m : m = R(Here, c)
  OBVIOUS
<1>4. Ahead(ReadLiteral(m), <<>>, z) /\ ReadLiteral(m).v = b
  BY <1>1, <1>2, <1>3, ReadsLiteral
<1>5. Symbol = Found("literal", ReadLiteral(m), 0, 1, 0)
  BY <1>1, <1>2, <1>3, SymbolIs
<1>6. PICK q : q = ReadLiteral(m)
  OBVIOUS
<1>7. Symbol = [kind |-> "literal", r |-> q, i |-> 0, len |-> 1, dist |-> 0]
  BY <1>5, <1>6 DEF Found
<1>8. q.ok = TRUE /\ q.at = z /\ q.v = b
  BY <1>4, <1>6, EmptyList DEF Ahead
<1> QED
  BY <1>7, <1>8 DEF Finds

\* The two decisions before anything else than a literal.
LEMMA FindsMatched ==
  ASSUME IsList(stream), NEW v, NEW e, IsList(e), NEW z,
         Ahead(Here, D(IsMatch(reader, Len(back)), 1) \o (D(<<"isRep", reader.state>>, v) \o e), z)
  PROVE  LET m == R(Here, IsMatch(reader, Len(back)))
             rep == R(m, <<"isRep", reader.state>>)
         IN  m.v = 1 /\ rep.v = v /\ Ahead(rep, e, z)
<1>1. PICK c, d : c = IsMatch(reader, Len(back)) /\ d = <<"isRep", reader.state>>
  OBVIOUS
<1>2. IsList(D(d, v) \o e)
  BY OneDecision, Joined
<1>3. Ahead(R(Here, c), D(d, v) \o e, z) /\ R(Here, c).v = 1
  BY <1>1, <1>2, Reads1
<1>4. Ahead(R(R(Here, c), d), e, z) /\ R(R(Here, c), d).v = v
  BY <1>3, Reads1
<1> QED
  BY <1>1, <1>3, <1>4

LEMMA FindsMatch ==
  ASSUME IsList(stream), NEW len \in Nat, len >= MatchMinLen, len <= MatchMaxLen, NEW dist \in 1 .. DictSize, NEW z,
         Ahead(Here, D(IsMatch(reader, Len(back)), 1)
                     \o MatchDecisions(reader.state, PosState(Len(back)), dist, len), z)
  PROVE  Finds(Symbol, "match", 0, len - MatchMinLen, dist - 1, z)
<1>1. PICK s, ps : s = reader.state /\ ps = PosState(Len(back))
  OBVIOUS
<1>2. PICK code \in Nat, d \in Nat :
        code = len - MatchMinLen /\ code < 2 * Tier + High /\ d = dist - 1 /\ d < DictSize
  BY SizesAssumption DEF MatchMinLen, MatchMaxLen
<1>3. PICK l, t : l = Length("len", code, ps) /\ t = Distance(d, code)
  OBVIOUS
<1>4. IsList(l) /\ IsList(t) /\ IsList(l \o t)
  BY <1>3, LengthList, DistanceList, Joined
<1>5. MatchDecisions(s, ps, dist, len) = D(<<"isRep", s>>, 0) \o (l \o t)
  BY <1>2, <1>3 DEF MatchDecisions
<1>6. PICK m, rep : m = R(Here, IsMatch(reader, Len(back))) /\ rep = R(m, <<"isRep", s>>)
  OBVIOUS
<1>7. m.v = 1 /\ rep.v = 0 /\ Ahead(rep, l \o t, z)
  BY <1>1, <1>4, <1>5, <1>6, FindsMatched
<1>8. PICK r : r = ReadLength(rep, "len", ps)
  OBVIOUS
<1>9. Ahead(r, t, z) /\ r.v = code
  BY <1>2, <1>3, <1>4, <1>7, <1>8, ReadsLength
<1>10. t \o <<>> = t /\ IsList(<<>>)
  BY <1>4, JoinedNothing, EmptyList
<1>11. PICK q : q = ReadDistance(r, code)
  OBVIOUS
<1>12. Ahead(q, <<>>, z) /\ q.v = d
  <2>1. PICK n : n = <<>> /\ IsList(n)
    BY <1>10
  <2>2. Ahead(r, Distance(d, code) \o n, z)
    BY <1>3, <1>9, <1>10, <2>1
  <2> QED
    BY <1>2, <1>11, <2>1, <2>2, ReadsDistance, ZenonT(30)
<1>13. Symbol = FoundMatch(r)
  BY <1>1, <1>6, <1>7, <1>8, SymbolIs
<1>14. FoundMatch(r) = [kind |-> "match", r |-> q, i |-> 0, len |-> code, dist |-> d]
  <2>1. q.v # EndMarker
    BY <1>12 DEF EndMarker
  <2>2. ReadDistance(r, r.v) = q
    BY <1>9, <1>11
  <2> QED
    BY <1>9, <1>12, <2>1, <2>2 DEF FoundMatch, Found
<1>15. q.ok = TRUE /\ q.at = z
  BY <1>12, EmptyList DEF Ahead
<1> QED
  BY <1>2, <1>13, <1>14, <1>15 DEF Finds

LEMMA FindsEnd ==
  ASSUME IsList(stream), NEW z, Ahead(Here, EndDecisions(reader.state, PosState(Len(back))), z)
  PROVE  Finds(Symbol, "end", 0, 0, EndMarker, z)
<1>1. PICK s, ps : s = reader.state /\ ps = PosState(Len(back))
  OBVIOUS
<1>3. PICK l, t : l = Length("len", 0, ps) /\ t = Distance(EndMarker, 0)
  OBVIOUS
<1>4. IsList(l) /\ IsList(t) /\ IsList(l \o t)
  BY <1>3, LengthList, DistanceList, Joined
<1>5. EndDecisions(s, ps) = D(IsMatch(reader, Len(back)), 1) \o (D(<<"isRep", s>>, 0) \o (l \o t))
  BY <1>1, <1>3 DEF EndDecisions, IsMatch
<1>6. PICK m, rep : m = R(Here, IsMatch(reader, Len(back))) /\ rep = R(m, <<"isRep", s>>)
  OBVIOUS
<1>7. m.v = 1 /\ rep.v = 0 /\ Ahead(rep, l \o t, z)
  BY <1>1, <1>4, <1>5, <1>6, FindsMatched
<1>8. PICK r : r = ReadLength(rep, "len", ps)
  OBVIOUS
<1>9. Ahead(r, t, z) /\ r.v = 0
  <2>1. 0 < 2 * Tier + High
    BY SizesAssumption
  <2> QED
    BY <1>3, <1>4, <1>7, <1>8, <2>1, ReadsLength
<1>11. PICK q : q = ReadDistance(r, 0)
  OBVIOUS
<1>12. Ahead(q, <<>>, z) /\ q.v = EndMarker
  BY <1>3, <1>9, <1>11, ReadsEndMarker
<1>13. Symbol = FoundMatch(r)
  BY <1>1, <1>6, <1>7, <1>8, SymbolIs
<1>14. FoundMatch(r) = [kind |-> "end", r |-> q, i |-> 0, len |-> 0, dist |-> EndMarker]
  <2>2. ReadDistance(r, r.v) = q
    BY <1>9, <1>11
  <2> QED
    BY <1>9, <1>12, <2>2 DEF FoundMatch, Found
<1>15. q.ok = TRUE /\ q.at = z
  BY <1>12, EmptyList DEF Ahead
<1> QED
  BY <1>13, <1>14, <1>15 DEF Finds

LEMMA FindsShort ==
  ASSUME IsList(stream), NEW z,
         Ahead(Here, D(IsMatch(reader, Len(back)), 1) \o ShortRepDecisions(reader.state, PosState(Len(back))), z)
  PROVE  Finds(Symbol, "short", 1, 1, 0, z)
<1>1. PICK s, ps : s = reader.state /\ ps = PosState(Len(back))
  OBVIOUS
<1>2. PICK g, h : g = <<"isRepG0", s>> /\ h = <<"isRep0Long", s, ps>>
  OBVIOUS
<1>3. PICK e : e = D(g, 0) \o D(h, 0) /\ IsList(e)
  BY TwoDecisions
<1>4. ShortRepDecisions(s, ps) = D(<<"isRep", s>>, 1) \o e
  BY <1>2, <1>3 DEF ShortRepDecisions
<1>5. PICK m, rep : m = R(Here, IsMatch(reader, Len(back))) /\ rep = R(m, <<"isRep", s>>)
  OBVIOUS
<1>6. m.v = 1 /\ rep.v = 1 /\ Ahead(rep, e, z)
  BY <1>1, <1>3, <1>4, <1>5, FindsMatched
<1>7. e \o <<>> = e /\ IsList(<<>>)
  BY <1>3, JoinedNothing, EmptyList
<1>8. R(rep, g).v = 0 /\ R(R(rep, g), h).v = 0 /\ Ahead(R(R(rep, g), h), <<>>, z)
  <2>1. Ahead(rep, (D(g, 0) \o D(h, 0)) \o <<>>, z)
    BY <1>3, <1>6, <1>7
  <2> QED
    BY <1>7, <2>1, Reads2
<1>9. PICK q : q = R(R(rep, g), h)
  OBVIOUS
<1>10. Symbol = FoundRep(rep, s, ps)
  BY <1>1, <1>5, <1>6, SymbolIs
<1>11. FoundRep(rep, s, ps) = [kind |-> "short", r |-> q, i |-> 1, len |-> 1, dist |-> 0]
  BY <1>2, <1>8, <1>9 DEF FoundRep, Found
<1>12. q.ok = TRUE /\ q.at = z
  BY <1>8, <1>9, EmptyList DEF Ahead
<1> QED
  BY <1>10, <1>11, <1>12 DEF Finds

\* Which of the four distances.
Which(s, ps, i, l) ==
  IF i = 1 THEN D(<<"isRepG0", s>>, 0) \o (D(<<"isRep0Long", s, ps>>, 1) \o l)
  ELSE D(<<"isRepG0", s>>, 1) \o WhichRep(s, i, l)

LEMMA FindsLong ==
  ASSUME IsList(stream), NEW r, NEW ps, NEW code \in Nat, code < 2 * Tier + High, NEW z, NEW i, Ahead(r, Length("repLen", code, ps), z)
  PROVE  Finds(FoundLong(ReadLength(r, "repLen", ps), i), "rep", i, code, 0, z)
<1>1. PICK l, n : l = Length("repLen", code, ps) /\ IsList(l) /\ n = <<>> /\ IsList(n)
  BY LengthList, EmptyList
<1>2. Ahead(r, Length("repLen", code, ps) \o n, z)
  BY <1>1, JoinedNothing
<1>3. PICK q : q = ReadLength(r, "repLen", ps)
  OBVIOUS
<1>4. Ahead(q, n, z) /\ q.v = code
  BY <1>1, <1>2, <1>3, ReadsLength
<1>5. FoundLong(q, i) = [kind |-> "rep", r |-> q, i |-> i, len |-> code, dist |-> 0]
  BY <1>4 DEF FoundLong, Found
<1>6. q.ok = TRUE /\ q.at = z
  BY <1>1, <1>4, EmptyList DEF Ahead
<1> QED
  BY <1>3, <1>5, <1>6 DEF Finds

LEMMA FindsWhich ==
  ASSUME IsList(stream), NEW rep, NEW s, NEW ps, NEW z, NEW i \in 1 .. 4, NEW code \in Nat, code < 2 * Tier + High,
         Ahead(rep, Which(s, ps, i, Length("repLen", code, ps)), z)
  PROVE  Finds(FoundRep(rep, s, ps), "rep", i, code, 0, z)
<1>l. PICK l : l = Length("repLen", code, ps) /\ IsList(l) /\ Ahead(rep, Which(s, ps, i, l), z)
  BY LengthList
<1>1. PICK g, h, g1, g2 : /\ g = <<"isRepG0", s>> /\ h = <<"isRep0Long", s, ps>>
                          /\ g1 = <<"isRepG1", s>> /\ g2 = <<"isRepG2", s>>
  OBVIOUS
<1>2. \A c, v : IsList(D(c, v) \o l)
  BY <1>l, OneDecision, Joined
<1>3. CASE i = 1
  <2>1. IsList(D(h, 1) \o l) /\ Ahead(rep, D(g, 0) \o (D(h, 1) \o l), z)
    BY <1>1, <1>2, <1>3, <1>l DEF Which
  <2>2. Ahead(R(rep, g), D(h, 1) \o l, z) /\ R(rep, g).v = 0
    BY <2>1, Reads1
  <2>3. Ahead(R(R(rep, g), h), l, z) /\ R(R(rep, g), h).v = 1
    BY <1>l, <2>2, Reads1
  <2>4. FoundRep(rep, s, ps) = FoundLong(ReadLength(R(R(rep, g), h), "repLen", ps), 1)
    BY <1>1, <2>2, <2>3 DEF FoundRep
  <2> QED
    BY <1>3, <1>l, <2>3, <2>4, FindsLong
<1>4. CASE i = 2
  <2>1. IsList(D(g1, 0) \o l) /\ Ahead(rep, D(g, 1) \o (D(g1, 0) \o l), z)
    BY <1>1, <1>2, <1>4, <1>l DEF Which, WhichRep
  <2>2. Ahead(R(rep, g), D(g1, 0) \o l, z) /\ R(rep, g).v = 1
    BY <2>1, Reads1
  <2>3. Ahead(R(R(rep, g), g1), l, z) /\ R(R(rep, g), g1).v = 0
    BY <1>l, <2>2, Reads1
  <2>4. FoundRep(rep, s, ps) = FoundLong(ReadLength(R(R(rep, g), g1), "repLen", ps), 2)
    BY <1>1, <2>2, <2>3 DEF FoundRep
  <2> QED
    BY <1>4, <1>l, <2>3, <2>4, FindsLong
<1>5. CASE i \in {3, 4}
  <2>1. PICK v \in 0 .. 1 : v = i - 3
    BY <1>5
  <2>2. IsList(D(g2, v) \o l) /\ Ahead(rep, D(g, 1) \o (D(g1, 1) \o (D(g2, v) \o l)), z)
    BY <1>1, <1>2, <1>5, <1>l, <2>1 DEF Which, WhichRep
  <2>3. IsList(D(g1, 1) \o (D(g2, v) \o l))
    BY <2>2, OneDecision, Joined
  <2>4. Ahead(R(rep, g), D(g1, 1) \o (D(g2, v) \o l), z) /\ R(rep, g).v = 1
    BY <2>2, <2>3, Reads1
  <2>5. Ahead(R(R(rep, g), g1), D(g2, v) \o l, z) /\ R(R(rep, g), g1).v = 1
    BY <2>2, <2>4, Reads1
  <2>6. PICK q : q = R(R(R(rep, g), g1), g2) /\ Ahead(q, l, z) /\ q.v = v
    BY <1>l, <2>5, Reads1
  <2>7. FoundRep(rep, s, ps) = FoundLong(ReadLength(q, "repLen", ps), IF q.v = 0 THEN 3 ELSE 4)
    BY <1>1, <2>4, <2>5, <2>6 DEF FoundRep
  <2>8. i = IF q.v = 0 THEN 3 ELSE 4
    BY <1>5, <2>1, <2>6
  <2> QED
    BY <1>l, <2>6, <2>7, <2>8, FindsLong
<1> QED
  BY <1>3, <1>4, <1>5

LEMMA FindsRep ==
  ASSUME IsList(stream), NEW i \in 1 .. 4, NEW len \in Nat, len >= MatchMinLen, len <= MatchMaxLen, NEW z,
         Ahead(Here, D(IsMatch(reader, Len(back)), 1)
                     \o RepDecisions(reader.state, PosState(Len(back)), i, len), z)
  PROVE  Finds(Symbol, "rep", i, len - MatchMinLen, 0, z)
<1>1. PICK s, ps : s = reader.state /\ ps = PosState(Len(back))
  OBVIOUS
<1>2. PICK code \in Nat : code = len - MatchMinLen /\ code < 2 * Tier + High
  BY SizesAssumption DEF MatchMinLen, MatchMaxLen
<1>3. PICK l : l = Length("repLen", code, ps) /\ IsList(l)
  BY LengthList
<1>4. PICK e : e = Which(s, ps, i, l)
  OBVIOUS
<1>5. \A c, v, k : IsList(k) => IsList(D(c, v) \o k)
  BY OneDecision, Joined
<1>6. IsList(e)
  <2>1. IsList(WhichRep(s, i, l))
    BY <1>3, <1>5 DEF WhichRep
  <2> QED
    BY <1>3, <1>4, <1>5, <2>1 DEF Which
<1>7. RepDecisions(s, ps, i, len) = D(<<"isRep", s>>, 1) \o e
  BY <1>2, <1>3, <1>4 DEF RepDecisions, Which
<1>8. PICK m, rep : m = R(Here, IsMatch(reader, Len(back))) /\ rep = R(m, <<"isRep", s>>)
  OBVIOUS
<1>9. m.v = 1 /\ rep.v = 1 /\ Ahead(rep, e, z)
  BY <1>1, <1>6, <1>7, <1>8, FindsMatched
<1>10. Symbol = FoundRep(rep, s, ps)
  BY <1>1, <1>8, <1>9, SymbolIs
<1>11. Finds(FoundRep(rep, s, ps), "rep", i, code, 0, z)
  <2>1. Ahead(rep, Which(s, ps, i, Length("repLen", code, ps)), z)
    BY <1>3, <1>4, <1>9
  <2> QED
    BY <1>2, <2>1, FindsWhich
<1> QED
  BY <1>2, <1>10, <1>11

(***************************************************************************)
(* A copy goes on as the text did.                                         *)
(***************************************************************************)
LEMMA Beginning ==
  ASSUME NEW S, NEW t \in Seq(S), NEW n \in 0 .. Len(t)
  PROVE  SubSeq(t, 1, n) \in Seq(S) /\ Len(SubSeq(t, 1, n)) = n /\ SubSeq(t, 1, n) = [i \in 1 .. n |-> t[i]]
OBVIOUS

CopyOf(f, p, d, l) == f = [i \in 1 .. p + l |-> IF i <= p THEN back[i] ELSE f[i - d]]

LEMMA CopiedIs ==
  ASSUME NEW S, NEW t \in Seq(S), NEW p \in 0 .. Len(t), back = SubSeq(t, 1, p),
         NEW d \in 1 .. p, NEW l \in Nat, Repeats(t, p, d, l)
  PROVE  Copied(d, l) = SubSeq(t, 1, p + l)
<1>1. Len(back) = p /\ \A i \in 1 .. p : back[i] = t[i]
  BY Beginning
<1>2. p + l \in 0 .. Len(t) /\ \A i \in p + 1 .. p + l : t[i] = t[i - d]
  BY DEF Repeats
<1> DEFINE g == [i \in 1 .. p + l |-> t[i]]
           f == CHOOSE h : CopyOf(h, p, d, l)
<1>3. Copied(d, l) = f
  BY <1>1, SMTT(30) DEF Copied, CopyOf
<1>4. CopyOf(g, p, d, l)
  <2>1. ASSUME NEW i \in 1 .. p + l PROVE g[i] = IF i <= p THEN back[i] ELSE g[i - d]
    <3>1. CASE i <= p
      BY <1>1, <3>1
    <3>2. CASE ~(i <= p)
      <4>1. i \in p + 1 .. p + l /\ i - d \in 1 .. p + l
        BY <3>2
      <4> QED
        BY <1>2, <3>2, <4>1
    <3> QED
      BY <3>1, <3>2
  <2> QED
    BY <2>1 DEF CopyOf
<1>5. CopyOf(f, p, d, l)
  BY <1>4
<1> HIDE DEF f
<1>6. f = [i \in 1 .. p + l |-> f[i]] /\ \A i \in 1 .. p + l : f[i] = IF i <= p THEN back[i] ELSE f[i - d]
  BY <1>5 DEF CopyOf
<1>7. \A i \in 1 .. p + l : f[i] = t[i]
  <2> DEFINE Bad == {i \in 1 .. p + l : f[i] # t[i]}
  <2> SUFFICES ASSUME Bad # {} PROVE FALSE
    OBVIOUS
  <2>1. PICK i \in Bad : \A j \in Bad : i <= j
    <3>1. Bad \subseteq Nat
      BY <1>2
    <3> HIDE DEF Bad
    <3> QED
      BY <3>1, LeastElement
  <2>2. i \in 1 .. p + l /\ f[i] # t[i]
    BY <2>1
  <2>3. ~(i <= p)
    <3> SUFFICES ASSUME i <= p PROVE FALSE
      OBVIOUS
    <3>1. i \in 1 .. p
      BY <2>2
    <3>2. back[i] = t[i] /\ f[i] = back[i]
      BY <1>1, <1>6, <2>2, <3>1
    <3> QED
      BY <2>2, <3>2
  <2>4. i - d \in 1 .. p + l /\ i \in p + 1 .. p + l /\ ~(i <= i - d)
    BY <2>2, <2>3
  <2>5. i - d \notin Bad
    BY <2>1, <2>4
  <2>6. f[i - d] = t[i - d]
    BY <2>4, <2>5
  <2>7. f[i] = f[i - d] /\ t[i] = t[i - d]
    BY <1>2, <1>6, <2>2, <2>3, <2>4
  <2> QED
    BY <2>2, <2>6, <2>7
<1>8. f = g
  BY <1>6, <1>7
<1> QED
  BY <1>2, <1>3, <1>8, Beginning

(***************************************************************************)
(* What the parser takes.                                                  *)
(***************************************************************************)
Typed ==
  /\ text \in Seq(Letters) /\ pos \in 0 .. Len(text)
  /\ table \subseteq 0 .. pos - 1
  /\ \A i \in 1 .. 4 : writer.reps[i] \in Nat

LEMMA MaxLen == MatchMaxLen \in Nat
BY SizesAssumption DEF MatchMaxLen, MatchMinLen

LEMMA CommonIs ==
  ASSUME Typed, NEW d
  PROVE  Common(d) \in 0 .. MatchMaxLen /\ Common(d) \in Nat /\ Repeats(text, pos, d, Common(d))
<1> DEFINE same == {l \in 0 .. MatchMaxLen : Repeats(text, pos, d, l)}
<1>1. 0 \in same
  <2>1. pos \in Nat /\ pos + 0 <= Len(text) /\ pos + 1 .. pos + 0 = {}
    BY DEF Typed
  <2>2. Repeats(text, pos, d, 0)
    BY <2>1 DEF Repeats
  <2> QED
    BY <2>2, MaxLen
<1>2. same \subseteq Nat /\ MatchMaxLen \in Nat /\ \A k \in same : k <= MatchMaxLen
  BY MaxLen
<1>3. \E l \in same : \A k \in same : k <= l
  <2> HIDE DEF same
  <2>1. \E l \in same : \A k \in same : l >= k
    BY <1>1, <1>2, GreatestElement
  <2> QED
    BY <1>2, <2>1
<1>4. Common(d) = CHOOSE l \in same : \A k \in same : k <= l
  BY DEF Common
<1>5. Common(d) \in same
  <2> HIDE DEF same
  <2> QED
    BY <1>3, <1>4
<1> QED
  BY <1>2, <1>5

LEMMA RepIs ==
  ASSUME Typed, NEW i \in 1 .. 4
  PROVE  /\ RepLen(i) \in Nat
         /\ RepLen(i) <= MatchMaxLen
         /\ RepLen(i) > 0 => /\ writer.reps[i] + 1 \in 1 .. pos
                             /\ Repeats(text, pos, writer.reps[i] + 1, RepLen(i))
<1>1. writer.reps[i] \in Nat /\ pos \in Nat
  BY DEF Typed
<1>2. CASE writer.reps[i] + 1 > pos
  BY <1>2, MaxLen DEF RepLen
<1>3. CASE ~(writer.reps[i] + 1 > pos)
  <2>1. RepLen(i) = Common(writer.reps[i] + 1)
    BY <1>3 DEF RepLen
  <2> QED
    BY <1>1, <1>3, <2>1, CommonIs, MaxLen
<1> QED
  BY <1>2, <1>3

LEMMA BestRepIs ==
  ASSUME Typed
  PROVE  BestRep \in 1 .. 4 /\ \A k \in 1 .. 4 : RepLen(k) <= RepLen(BestRep)
<1> DEFINE T == {RepLen(k) : k \in 1 .. 4}
           U == {i \in 1 .. 4 : \A k \in 1 .. 4 : RepLen(k) <= RepLen(i)}
<1>1. \A k \in 1 .. 4 : RepLen(k) \in Nat
  BY RepIs
<1>2. U # {}
  <2>1. PICK i \in 1 .. 4 : RepLen(1) <= RepLen(i) /\ RepLen(2) <= RepLen(i) /\ RepLen(3) <= RepLen(i) /\ RepLen(4) <= RepLen(i)
    <3>1. RepLen(1) \in Nat /\ RepLen(2) \in Nat /\ RepLen(3) \in Nat /\ RepLen(4) \in Nat
      BY <1>1
    <3> QED
      BY <3>1
  <2>2. \A k \in 1 .. 4 : k = 1 \/ k = 2 \/ k = 3 \/ k = 4
    OBVIOUS
  <2>3. \A k \in 1 .. 4 : RepLen(k) <= RepLen(i)
    BY <2>1, <2>2
  <2> QED
    BY <2>3
<1>3. U \subseteq Nat
  OBVIOUS
<1>4. PICK i \in U : \A j \in U : i <= j
  <2> HIDE DEF U
  <2> QED
    BY <1>2, <1>3, LeastElement
<1>5. i \in 1 .. 4 /\ \A k \in 1 .. 4 : RepLen(k) <= RepLen(i)
  BY <1>4
<1>6. ASSUME NEW k \in 1 .. i - 1 PROVE RepLen(k) < RepLen(i)
  <2>1. k \in 1 .. 4 /\ ~(i <= k)
    BY <1>5
  <2>2. k \notin U
    BY <1>4, <2>1
  <2>3. PICK m \in 1 .. 4 : ~(RepLen(m) <= RepLen(k))
    BY <2>1, <2>2
  <2>4. RepLen(m) <= RepLen(i) /\ RepLen(m) \in Nat /\ RepLen(i) \in Nat /\ RepLen(k) \in Nat
    BY <1>1, <1>5, <2>1, <2>3
  <2> QED
    BY <2>3, <2>4
<1> QED
  BY <1>5, <1>6 DEF BestRep

LEMMA RepTaken ==
  ASSUME Typed, TakesRep
  PROVE  /\ BestRep \in 1 .. 4 /\ RepLen(BestRep) \in Nat \ {0} /\ RepLen(BestRep) <= MatchMaxLen
         /\ RepLen(BestRep) = 1 => BestRep = 1
         /\ writer.reps[BestRep] + 1 \in 1 .. pos
         /\ Repeats(text, pos, writer.reps[BestRep] + 1, RepLen(BestRep))
<1>1. PICK i \in 1 .. 4 : i = BestRep
  BY BestRepIs
<1>2. RepLen(i) \in Nat /\ (RepLen(i) >= 2 \/ (RepLen(i) = 1 /\ i = 1))
  BY <1>1, RepIs DEF TakesRep
<1> QED
  BY <1>1, <1>2, RepIs

LEMMA MatchIs ==
  ASSUME Typed, NEW d \in Matches
  PROVE  d \in 1 .. pos /\ d <= DictSize /\ Common(d) >= HashLen
<1>1. PICK p \in Candidates : d = pos - p /\ Common(pos - p) >= HashLen
  BY DEF Matches
<1>2. p \in Near(HashChain) /\ p >= pos - DictSize
  BY <1>1 DEF Candidates
<1>3. p \in 0 .. pos - 1 /\ pos \in Nat
  BY <1>2 DEF Near, HashChain, Typed
<1>4. DictSize \in Int
  BY SizesAssumption
<1> QED
  BY <1>1, <1>2, <1>3, <1>4

LEMMA MatchTaken ==
  ASSUME Typed, TakesMatch
  PROVE  /\ BestMatch \in 1 .. pos /\ BestMatch <= DictSize
         /\ Common(BestMatch) \in Nat /\ Common(BestMatch) >= HashLen /\ Common(BestMatch) <= MatchMaxLen
         /\ Repeats(text, pos, BestMatch, Common(BestMatch))
<1> DEFINE T == {Common(d) : d \in Matches}
<1>1. T \subseteq Nat /\ T # {} /\ \A x \in T : x <= MatchMaxLen
  BY CommonIs, MaxLen DEF TakesMatch
<1>2. PICK c \in T : \A x \in T : c >= x
  <2> HIDE DEF T
  <2> QED
    BY <1>1, MaxLen, GreatestElement
<1> DEFINE U == {d \in Matches : Common(d) = c}
<1>3. U \subseteq Nat /\ U # {}
  <2>1. U # {}
    BY <1>2
  <2>2. \A d \in Matches : d \in Nat
    <3>1. pos \in Nat
      BY DEF Typed
    <3> QED
      BY <3>1, MatchIs
  <2> QED
    BY <2>1, <2>2
<1>4. PICK d \in U : \A e \in U : d <= e
  <2> HIDE DEF U
  <2> QED
    BY <1>3, LeastElement
<1>5. d \in Matches /\ Common(d) = c
  BY <1>4
<1>6. ASSUME NEW e \in Matches PROVE Common(e) < Common(d) \/ (Common(e) = Common(d) /\ d <= e)
  <2>1. Common(e) \in Nat /\ c \in Nat /\ c >= Common(e)
    BY <1>1, <1>2, CommonIs
  <2>2. Common(e) = c => d <= e
    BY <1>4
  <2> QED
    BY <1>5, <2>1, <2>2
<1>7. BestMatch \in Matches
  BY <1>5, <1>6 DEF BestMatch
<1> QED
  BY <1>7, MatchIs, CommonIs, MaxLen

(***************************************************************************)
(* The course of an encoding: the places between its symbols, how far in the *)
(* stream and in the text, and the coder's state there. From a place to the*)
(* next one symbol stands in the stream, which is true of the text.        *)
(***************************************************************************)
TextPlaces == [at : Nat, pos : Nat, coder : [state : 0 .. 11, reps : [1 .. 4 -> Nat]]]

\* A place in t. After a match the last distance is within what is before it.
SoundPlace(t, b) ==
  b \in TextPlaces /\ b.pos <= Len(t) /\ (b.coder.state >= 7 => b.coder.reps[1] < b.pos)

Start == [at |-> 0, pos |-> 0, coder |-> Fresh0]

SymbolDecisions(b, v, rest) == D(IsMatch(b.coder, b.pos), v) \o rest

\* From b to c decisions stand in s that make n letters.
Goes(s, b, c, v, rest, state, reps, n) ==
  /\ StandsAt(s, b.at, SymbolDecisions(b, v, rest))
  /\ c = [at |-> b.at + Len(SymbolDecisions(b, v, rest)), pos |-> b.pos + n, coder |-> [state |-> state, reps |-> reps]]

ByLiteral(t, s, b, c) ==
  /\ b.pos < Len(t)
  /\ Goes(s, b, c, 0, Literal(b.coder, SubSeq(t, 1, b.pos), t[b.pos + 1]), AfterLiteral(b.coder.state), b.coder.reps, 1)

MatchGoes(t, s, b, c, d, l) ==
  /\ d \in 1 .. b.pos /\ d <= DictSize /\ l \in Nat /\ l >= MatchMinLen /\ l <= MatchMaxLen
  /\ Repeats(t, b.pos, d, l)
  /\ Goes(s, b, c, 1, MatchDecisions(b.coder.state, PosState(b.pos), d, l),
          AfterMatch(b.coder.state), Pushed(b.coder.reps, d - 1), l)

ByMatch(t, s, b, c) == \E d, l : MatchGoes(t, s, b, c, d, l)

RepGoes(t, s, b, c, i, l) ==
  /\ i \in 1 .. 4 /\ b.coder.reps[i] + 1 \in 1 .. b.pos /\ l \in Nat /\ l >= MatchMinLen /\ l <= MatchMaxLen
  /\ Repeats(t, b.pos, b.coder.reps[i] + 1, l)
  /\ Goes(s, b, c, 1, RepDecisions(b.coder.state, PosState(b.pos), i, l),
          AfterRep(b.coder.state), RepsAfter(b.coder.reps, i), l)

ByRep(t, s, b, c) == \E i, l : RepGoes(t, s, b, c, i, l)

ByShortRep(t, s, b, c) ==
  /\ b.coder.reps[1] + 1 \in 1 .. b.pos /\ Repeats(t, b.pos, b.coder.reps[1] + 1, 1)
  /\ Goes(s, b, c, 1, ShortRepDecisions(b.coder.state, PosState(b.pos)),
          AfterShortRep(b.coder.state), b.coder.reps, 1)

Linked(t, s, b, c) == ByLiteral(t, s, b, c) \/ ByMatch(t, s, b, c) \/ ByRep(t, s, b, c) \/ ByShortRep(t, s, b, c)

Encoded(t, s, n, h) ==
  /\ h[0] = Start
  /\ \A i \in 0 .. n : SoundPlace(t, h[i])
  /\ \A i \in 1 .. n : Linked(t, s, h[i - 1], h[i])

\* The decisions of every kind are lists.
LEMMA DecisionLists ==
  /\ \A s, ps, d, l : IsList(MatchDecisions(s, ps, d, l))
  /\ \A s, ps, i, l : IsList(RepDecisions(s, ps, i, l))
  /\ \A s, ps : IsList(ShortRepDecisions(s, ps))
  /\ \A s, ps : IsList(EndDecisions(s, ps))
  /\ \A b, v, rest : IsList(rest) => IsList(SymbolDecisions(b, v, rest))
<1>1. \A c, v, e : IsList(e) => IsList(D(c, v) \o e)
  BY OneDecision, Joined
<1>2. \A c, v : IsList(D(c, v))
  BY OneDecision
<1>3. \A x, code, ps : IsList(Length(x, code, ps))
  BY LengthList
<1>4. \A x, code, ps, d, k : IsList(Length(x, code, ps) \o Distance(d, k))
  <2> TAKE x, code, ps, d, k
  <2>1. IsList(Distance(d, k))
    BY DistanceList
  <2> QED
    BY <1>3, <2>1, Joined
<1>5. ASSUME NEW s, NEW ps, NEW d, NEW l PROVE IsList(MatchDecisions(s, ps, d, l))
  BY <1>1, <1>4 DEF MatchDecisions
<1>6. ASSUME NEW s, NEW ps, NEW i, NEW l PROVE IsList(RepDecisions(s, ps, i, l))
  <2>1. PICK e : e = Length("repLen", l - MatchMinLen, ps) /\ IsList(e)
    BY <1>3
  <2>2. IsList(WhichRep(s, i, e))
    BY <1>1, <2>1 DEF WhichRep
  <2>3. PICK w : w = Which(s, ps, i, e) /\ IsList(w)
    BY <1>1, <2>1, <2>2 DEF Which
  <2>4. RepDecisions(s, ps, i, l) = D(<<"isRep", s>>, 1) \o w
    BY <2>1, <2>3 DEF RepDecisions, Which
  <2> QED
    BY <1>1, <2>3, <2>4
<1>7. ASSUME NEW s, NEW ps PROVE IsList(ShortRepDecisions(s, ps))
  BY <1>1, TwoDecisions DEF ShortRepDecisions
<1>8. ASSUME NEW s, NEW ps PROVE IsList(EndDecisions(s, ps))
  BY <1>1, <1>4 DEF EndDecisions
<1>9. ASSUME NEW b, NEW v, NEW rest, IsList(rest) PROVE IsList(SymbolDecisions(b, v, rest))
  BY <1>1, <1>9 DEF SymbolDecisions
<1> QED
  BY <1>5, <1>6, <1>7, <1>8, <1>9

\* What stands in a stream stands in a longer one.
LEMMA GoesLonger ==
  ASSUME NEW s, NEW e, IsList(s), IsList(e), NEW b \in TextPlaces, NEW c, NEW v, NEW rest, IsList(rest),
         NEW state, NEW reps, NEW n, Goes(s, b, c, v, rest, state, reps, n)
  PROVE  Goes(s \o e, b, c, v, rest, state, reps, n)
<1>1. b.at \in Nat
  BY DEF TextPlaces
<1>2. PICK d : d = SymbolDecisions(b, v, rest) /\ IsList(d)
  BY DecisionLists
<1>3. StandsAt(s, b.at, d)
  BY <1>2 DEF Goes
<1>4. StandsAt(s \o e, b.at, d)
  BY <1>1, <1>2, <1>3, StandsLonger
<1> QED
  BY <1>2, <1>4 DEF Goes

LEMMA LinkedLonger ==
  ASSUME NEW t, NEW s, NEW e, IsList(s), IsList(e), NEW b \in TextPlaces, NEW c, Linked(t, s, b, c)
  PROVE  Linked(t, s \o e, b, c)
<1>1. CASE ByLiteral(t, s, b, c)
  <2>1. PICK l : l = Literal(b.coder, SubSeq(t, 1, b.pos), t[b.pos + 1]) /\ IsList(l)
    BY LiteralList
  <2>2. Goes(s, b, c, 0, l, AfterLiteral(b.coder.state), b.coder.reps, 1) /\ b.pos < Len(t)
    BY <1>1, <2>1 DEF ByLiteral
  <2>3. Goes(s \o e, b, c, 0, l, AfterLiteral(b.coder.state), b.coder.reps, 1)
    BY <2>1, <2>2, GoesLonger
  <2> QED
    BY <2>1, <2>2, <2>3 DEF ByLiteral, Linked
<1>2. CASE ByMatch(t, s, b, c)
  <2>1. PICK d, l : MatchGoes(t, s, b, c, d, l)
    BY <1>2 DEF ByMatch
  <2>2. PICK m : m = MatchDecisions(b.coder.state, PosState(b.pos), d, l) /\ IsList(m)
    BY DecisionLists
  <2>3. Goes(s, b, c, 1, m, AfterMatch(b.coder.state), Pushed(b.coder.reps, d - 1), l)
    BY <2>1, <2>2 DEF MatchGoes
  <2>4. Goes(s \o e, b, c, 1, m, AfterMatch(b.coder.state), Pushed(b.coder.reps, d - 1), l)
    BY <2>2, <2>3, GoesLonger
  <2>5. MatchGoes(t, s \o e, b, c, d, l)
    BY <2>1, <2>2, <2>4 DEF MatchGoes
  <2> QED
    BY <2>5 DEF ByMatch, Linked
<1>3. CASE ByRep(t, s, b, c)
  <2>1. PICK i, l : RepGoes(t, s, b, c, i, l)
    BY <1>3 DEF ByRep
  <2>2. PICK m : m = RepDecisions(b.coder.state, PosState(b.pos), i, l) /\ IsList(m)
    BY DecisionLists
  <2>3. Goes(s, b, c, 1, m, AfterRep(b.coder.state), RepsAfter(b.coder.reps, i), l)
    BY <2>1, <2>2 DEF RepGoes
  <2>4. Goes(s \o e, b, c, 1, m, AfterRep(b.coder.state), RepsAfter(b.coder.reps, i), l)
    BY <2>2, <2>3, GoesLonger
  <2>5. RepGoes(t, s \o e, b, c, i, l)
    BY <2>1, <2>2, <2>4 DEF RepGoes
  <2> QED
    BY <2>5 DEF ByRep, Linked
<1>4. CASE ByShortRep(t, s, b, c)
  <2>1. PICK m : m = ShortRepDecisions(b.coder.state, PosState(b.pos)) /\ IsList(m)
    BY DecisionLists
  <2>2. Goes(s, b, c, 1, m, AfterShortRep(b.coder.state), b.coder.reps, 1)
    BY <1>4, <2>1 DEF ByShortRep
  <2>3. Goes(s \o e, b, c, 1, m, AfterShortRep(b.coder.state), b.coder.reps, 1)
    BY <2>1, <2>2, GoesLonger
  <2> QED
    BY <1>4, <2>1, <2>3 DEF ByShortRep, Linked
<1> QED
  BY <1>1, <1>2, <1>3, <1>4 DEF Linked

\* One symbol more.
LEMMA EncodedLonger ==
  ASSUME NEW t, NEW s, NEW e, IsList(s), IsList(e), NEW n \in Nat, NEW h, Encoded(t, s, n, h),
         NEW c, SoundPlace(t, c), Linked(t, s \o e, h[n], c)
  PROVE  \E g : Encoded(t, s \o e, n + 1, g) /\ g[n + 1] = c
<1> DEFINE g == [i \in 0 .. n + 1 |-> IF i <= n THEN h[i] ELSE c]
<1>1. (\A i \in 0 .. n : g[i] = h[i]) /\ g[n + 1] = c /\ g[0] = h[0]
  OBVIOUS
<1> HIDE DEF g
<1>2. g[0] = Start
  BY <1>1 DEF Encoded
<1>3. ASSUME NEW i \in 0 .. n + 1 PROVE SoundPlace(t, g[i])
  <2>1. CASE i \in 0 .. n
    BY <1>1, <2>1 DEF Encoded
  <2>2. CASE i = n + 1
    BY <1>1, <2>2
  <2> QED
    BY <2>1, <2>2
<1>4. ASSUME NEW i \in 1 .. n + 1 PROVE Linked(t, s \o e, g[i - 1], g[i])
  <2>1. CASE i \in 1 .. n
    <3>1. i \in 0 .. n /\ i - 1 \in 0 .. n
      BY <2>1
    <3>2. g[i] = h[i] /\ g[i - 1] = h[i - 1]
      BY <1>1, <3>1
    <3>3. PICK b : b = h[i - 1] /\ b \in TextPlaces
      BY <3>1 DEF Encoded, SoundPlace
    <3>4. Linked(t, s, b, h[i])
      BY <2>1, <3>3 DEF Encoded
    <3>5. Linked(t, s \o e, b, h[i])
      BY <3>3, <3>4, LinkedLonger
    <3> QED
      BY <3>2, <3>3, <3>5
  <2>2. CASE i = n + 1
    <3>1. g[i - 1] = h[n] /\ g[i] = c
      BY <1>1, <2>2
    <3> QED
      BY <3>1
  <2> QED
    BY <2>1, <2>2
<1>5. Encoded(t, s \o e, n + 1, g)
  BY <1>2, <1>3, <1>4 DEF Encoded
<1> QED
  BY <1>1, <1>5

(***************************************************************************)
(* The invariant.                                                          *)
(***************************************************************************)

\* The end marker is the last that stands in the stream.
EndsAt(a) ==
  /\ StandsAt(stream, a, EndDecisions(writer.state, PosState(pos)))
  /\ a + Len(EndDecisions(writer.state, PosState(pos))) = Len(stream)

\* The decoder is at that place, with the coder that the encoder had there.
ReadTo(b) == b.at = taken /\ b.coder = reader /\ back = SubSeq(text, 1, b.pos)

Reached(n, h) ==
  /\ h[n].pos = pos /\ h[n].coder = writer
  /\ step \in {"write", "read", "end"}
  /\ step = "write" => h[n].at = Len(stream) /\ reader = Fresh0 /\ taken = 0 /\ back = <<>>
  /\ step # "write" => pos = Len(text) /\ EndsAt(h[n].at)
  /\ step = "read" => \E k \in 0 .. n : ReadTo(h[k])
  /\ step = "end" => back = text /\ taken = Len(stream)

LzmaInv ==
  /\ text \in Seq(Letters) /\ pos \in 0 .. Len(text)
  /\ table \subseteq 0 .. pos - 1
  /\ IsList(stream)
  /\ \E n, h : n \in Nat /\ Encoded(text, stream, n, h) /\ Reached(n, h)

LEMMA StartSound ==
  ASSUME NEW t, Len(t) \in Nat
  PROVE  SoundPlace(t, Start) /\ Fresh0.reps \in [1 .. 4 -> Nat]
<1>1. <<0, 0, 0, 0>> \in [1 .. 4 -> Nat]
  OBVIOUS
<1>2. Fresh0 \in [state : 0 .. 11, reps : [1 .. 4 -> Nat]] /\ Fresh0.state = 0
  BY <1>1 DEF Fresh0
<1>3. Start \in TextPlaces /\ Start.pos = 0 /\ Start.coder = Fresh0
  BY <1>2 DEF Start, TextPlaces
<1> QED
  BY <1>1, <1>2, <1>3 DEF SoundPlace, Fresh0

LEMMA LzmaInitInv == LzmaInit => LzmaInv
<1> SUFFICES ASSUME LzmaInit PROVE LzmaInv
  OBVIOUS
<1>1. text \in Seq(Letters) /\ pos = 0 /\ writer = Fresh0 /\ table = {} /\ stream = <<>> /\ reader = Fresh0
      /\ taken = 0 /\ back = <<>> /\ step = "write"
  BY SizesAssumption DEF LzmaInit, Letters
<1>2. pos \in 0 .. Len(text) /\ table \subseteq 0 .. pos - 1 /\ IsList(stream) /\ Len(text) \in Nat
  BY <1>1, EmptyList
<1> DEFINE h == [i \in {0} |-> Start]
<1>3. Encoded(text, stream, 0, h)
  <2>1. h[0] = Start /\ 0 .. 0 = {0} /\ 1 .. 0 = {}
    OBVIOUS
  <2> QED
    BY <1>2, <2>1, StartSound DEF Encoded
<1>4. Reached(0, h)
  <2>1. h[0].pos = 0 /\ h[0].at = 0 /\ h[0].coder = Fresh0
    BY DEF Start
  <2> QED
    BY <1>1, <2>1, EmptyList DEF Reached
<1> QED
  BY <1>1, <1>2, <1>3, <1>4 DEF LzmaInv

\* Where the encoder is.
Writer == [at |-> Len(stream), pos |-> pos, coder |-> writer]

LEMMA WriterIs ==
  ASSUME LzmaInv, step = "write"
  PROVE  /\ Typed /\ SoundPlace(text, Writer) /\ Len(stream) \in Nat
         /\ writer.state \in 0 .. 11 /\ writer.reps \in [1 .. 4 -> Nat]
         /\ \E n, h : n \in Nat /\ Encoded(text, stream, n, h) /\ Reached(n, h) /\ h[n] = Writer
<1>1. PICK n, h : n \in Nat /\ Encoded(text, stream, n, h) /\ Reached(n, h)
  BY DEF LzmaInv
<1>2. SoundPlace(text, h[n])
  BY <1>1 DEF Encoded
<1>3. h[n] = Writer
  <2>1. h[n].at = Len(stream) /\ h[n].pos = pos /\ h[n].coder = writer
    BY <1>1 DEF Reached
  <2>2. h[n] = [at |-> h[n].at, pos |-> h[n].pos, coder |-> h[n].coder]
    BY <1>2 DEF SoundPlace, TextPlaces
  <2> QED
    BY <2>1, <2>2 DEF Writer
<1>4. Len(stream) \in Nat /\ writer.state \in 0 .. 11 /\ writer.reps \in [1 .. 4 -> Nat]
  BY <1>2, <1>3 DEF SoundPlace, TextPlaces, Writer
<1>5. Typed
  BY <1>4 DEF Typed, LzmaInv
<1> QED
  BY <1>1, <1>2, <1>3, <1>4, <1>5

LEMMA WriteGoes ==
  ASSUME IsList(stream), NEW v, NEW rest, NEW state, NEW reps, NEW n, IsList(rest), Write(v, rest, state, reps, n)
  PROVE  /\ stream' = stream \o SymbolDecisions(Writer, v, rest)
         /\ IsList(SymbolDecisions(Writer, v, rest))
         /\ Len(stream') = Len(stream) + Len(SymbolDecisions(Writer, v, rest)) /\ IsList(stream')
         /\ Goes(stream', Writer, Writer', v, rest, state, reps, n)
<1>1. PICK d : d = SymbolDecisions(Writer, v, rest) /\ IsList(d)
  BY DecisionLists
<1>2. stream' = stream \o d
  BY <1>1 DEF Write, SymbolDecisions, Writer, IsMatch
<1>3. Len(stream \o d) = Len(stream) + Len(d) /\ IsList(stream \o d)
  BY <1>1, Joined
<1>4. StandsAt(stream', Len(stream), d)
  BY <1>1, <1>2, StandsNew
<1>5. Writer' = [at |-> Len(stream) + Len(d), pos |-> pos + n, coder |-> [state |-> state, reps |-> reps]]
  BY <1>2, <1>3 DEF Writer, Write
<1>6. Writer.at = Len(stream) /\ Writer.pos = pos
  BY DEF Writer
<1> QED
  BY <1>1, <1>2, <1>3, <1>4, <1>5, <1>6 DEF Goes

\* Writing a symbol keeps the invariant when the text bears it out.
LEMMA WriteInv ==
  ASSUME LzmaInv, Writing, NEW v, NEW rest, NEW state, NEW reps, NEW n \in Nat, IsList(rest),
         Write(v, rest, state, reps, n),
         SoundPlace(text, Writer'), Linked(text, stream', Writer, Writer')
  PROVE  LzmaInv'
<1>1. PICK m, h : m \in Nat /\ Encoded(text, stream, m, h) /\ Reached(m, h) /\ h[m] = Writer
  BY WriterIs DEF Writing
<1>2. PICK d : /\ d = SymbolDecisions(Writer, v, rest) /\ IsList(d) /\ stream' = stream \o d
               /\ IsList(stream) /\ IsList(stream')
  BY WriteGoes DEF LzmaInv
<1>3. PICK c : c = Writer'
  OBVIOUS
<1>4. SoundPlace(text, c) /\ Linked(text, stream \o d, h[m], c)
  BY <1>1, <1>2, <1>3
<1>5. PICK g : Encoded(text, stream \o d, m + 1, g) /\ g[m + 1] = c
  BY <1>1, <1>2, <1>4, EncodedLonger
<1>6. /\ text' = text /\ pos' = pos + n /\ reader' = reader /\ taken' = taken /\ back' = back /\ step' = step
      /\ table' = table \cup Inserted(n)
  BY DEF Write
<1>7. pos \in Nat /\ pos + n <= Len(text) /\ text \in Seq(Letters)
  <2>1. c.pos = pos' /\ c.pos <= Len(text)
    BY <1>3, <1>4 DEF Writer, SoundPlace
  <2> QED
    BY <1>6, <2>1 DEF LzmaInv
<1>8. table' \subseteq 0 .. pos' - 1
  <2>1. ASSUME NEW p \in Inserted(n) PROVE p \in 0 .. (pos + n) - 1
    BY <1>7 DEF Inserted
  <2>2. ASSUME NEW p \in table PROVE p \in 0 .. (pos + n) - 1
    <3>1. p \in 0 .. pos - 1
      BY DEF LzmaInv
    <3> QED
      BY <1>7, <3>1
  <2> QED
    BY <1>6, <2>1, <2>2
<1>9. Reached(m + 1, g)'
  <2>1. g[m + 1].pos = pos' /\ g[m + 1].coder = writer' /\ g[m + 1].at = Len(stream')
    BY <1>3, <1>5 DEF Writer
  <2>2. step = "write" /\ reader = Fresh0 /\ taken = 0 /\ back = <<>>
    BY <1>1 DEF Reached, Writing
  <2> QED
    BY <1>6, <2>1, <2>2 DEF Reached
<1>10. m + 1 \in Nat /\ Encoded(text', stream', m + 1, g)
  BY <1>1, <1>2, <1>5, <1>6
<1>11. pos' \in 0 .. Len(text')
  BY <1>6, <1>7
<1> QED
  BY <1>2, <1>6, <1>7, <1>8, <1>9, <1>10, <1>11 DEF LzmaInv

LEMMA States ==
  ASSUME NEW s \in 0 .. 11
  PROVE  /\ AfterLiteral(s) \in 0 .. 6 /\ AfterMatch(s) \in 0 .. 11
         /\ AfterRep(s) \in 0 .. 11 /\ AfterShortRep(s) \in 0 .. 11
BY DEF AfterLiteral, AfterMatch, AfterRep, AfterShortRep

\* The place behind what was written.
LEMMA WrittenSound ==
  ASSUME LzmaInv, Writing, NEW v, NEW rest, NEW state \in 0 .. 11, NEW reps \in [1 .. 4 -> Nat], NEW n \in Nat,
         IsList(rest), Write(v, rest, state, reps, n),
         pos + n <= Len(text), state >= 7 => reps[1] < pos + n
  PROVE  SoundPlace(text, Writer')
<1>1. Len(stream') \in Nat
  BY WriteGoes, ListIs DEF LzmaInv
<1>2. pos' = pos + n /\ pos' \in Nat /\ writer' = [state |-> state, reps |-> reps]
  BY DEF Write, LzmaInv
<1>3. Writer' = [at |-> Len(stream'), pos |-> pos', coder |-> writer']
  BY DEF Writer
<1> QED
  BY <1>1, <1>2, <1>3 DEF SoundPlace, TextPlaces

LEMMA EncodeLiteralInv == LzmaInv /\ EncodeLiteral => LzmaInv'
<1> SUFFICES ASSUME LzmaInv, EncodeLiteral PROVE LzmaInv'
  OBVIOUS
<1>1. PICK l : l = Literal(writer, Done, text[pos + 1]) /\ IsList(l)
  BY LiteralList
<1>2. Writing /\ Write(0, l, AfterLiteral(writer.state), writer.reps, 1)
  BY <1>1 DEF EncodeLiteral
<1>3. writer.state \in 0 .. 11 /\ writer.reps \in [1 .. 4 -> Nat]
  BY <1>2, WriterIs DEF Writing
<1>4. AfterLiteral(writer.state) \in 0 .. 6
  BY <1>3, States
<1>5. pos \in Nat /\ pos + 1 <= Len(text) /\ pos < Len(text)
  BY <1>2 DEF Writing, LzmaInv
<1>6. SoundPlace(text, Writer')
  <2>1. PICK s \in 0 .. 11 : s = AfterLiteral(writer.state) /\ ~(s >= 7)
    BY <1>4
  <2> QED
    BY <1>1, <1>2, <1>3, <1>5, <2>1, WrittenSound
<1>7. Goes(stream', Writer, Writer', 0, l, AfterLiteral(writer.state), writer.reps, 1)
  BY <1>1, <1>2, WriteGoes DEF LzmaInv
<1>8. ByLiteral(text, stream', Writer, Writer')
  BY <1>1, <1>5, <1>7 DEF ByLiteral, Writer, Done
<1> QED
  BY <1>1, <1>2, <1>6, <1>8, WriteInv DEF Linked

LEMMA PushedIs ==
  ASSUME NEW reps \in [1 .. 4 -> Nat], NEW d \in Nat
  PROVE  Pushed(reps, d) \in [1 .. 4 -> Nat] /\ Pushed(reps, d)[1] = d
BY DEF Pushed

LEMMA RepsAfterIs ==
  ASSUME NEW reps \in [1 .. 4 -> Nat], NEW i \in 1 .. 4
  PROVE  RepsAfter(reps, i) \in [1 .. 4 -> Nat] /\ RepsAfter(reps, i)[1] = reps[i]
BY DEF RepsAfter

LEMMA EncodeMatchInv == LzmaInv /\ EncodeMatch => LzmaInv'
<1> SUFFICES ASSUME LzmaInv, EncodeMatch PROVE LzmaInv'
  OBVIOUS
<1>1. PICK d, l, m : d = BestMatch /\ l = Common(BestMatch) /\ m = MatchDecisions(writer.state, PosState(pos), d, l)
  OBVIOUS
<1>2. Writing /\ TakesMatch /\ Write(1, m, AfterMatch(writer.state), Pushed(writer.reps, d - 1), l)
  BY <1>1 DEF EncodeMatch
<1>3. writer.state \in 0 .. 11 /\ writer.reps \in [1 .. 4 -> Nat] /\ Typed
  BY <1>2, WriterIs DEF Writing
<1>4. /\ d \in 1 .. pos /\ d <= DictSize /\ l \in Nat /\ l >= MatchMinLen /\ l <= MatchMaxLen
      /\ Repeats(text, pos, d, l)
  BY <1>1, <1>2, <1>3, MatchTaken DEF HashLen, MatchMinLen
<1>5. pos \in Nat /\ pos + l <= Len(text)
  BY <1>3, <1>4 DEF Repeats, Typed
<1>6. d - 1 \in Nat /\ d - 1 < pos + l /\ AfterMatch(writer.state) \in 0 .. 11 /\ IsList(m)
  <2>1. d - 1 \in Nat /\ d - 1 < pos + l
    BY <1>4, <1>5
  <2> QED
    BY <1>1, <1>3, <2>1, States, DecisionLists
<1>7. PICK p \in [1 .. 4 -> Nat] : p = Pushed(writer.reps, d - 1) /\ p[1] = d - 1
  BY <1>3, <1>6, PushedIs
<1>8. Write(1, m, AfterMatch(writer.state), p, l)
  BY <1>2, <1>7
<1>9. SoundPlace(text, Writer')
  BY <1>2, <1>4, <1>5, <1>6, <1>7, <1>8, WrittenSound
<1>10. Goes(stream', Writer, Writer', 1, m, AfterMatch(writer.state), p, l)
  BY <1>6, <1>8, WriteGoes DEF LzmaInv
<1>11. MatchGoes(text, stream', Writer, Writer', d, l)
  BY <1>1, <1>4, <1>7, <1>10 DEF MatchGoes, Writer
<1>12. Linked(text, stream', Writer, Writer')
  BY <1>11 DEF Linked, ByMatch
<1> QED
  BY <1>2, <1>4, <1>6, <1>8, <1>9, <1>12, WriteInv

LEMMA EncodeRepInv == LzmaInv /\ EncodeRep => LzmaInv'
<1> SUFFICES ASSUME LzmaInv, EncodeRep PROVE LzmaInv'
  OBVIOUS
<1>1. PICK i, l, m : i = BestRep /\ l = RepLen(BestRep) /\ m = RepDecisions(writer.state, PosState(pos), i, l)
  OBVIOUS
<1>2. Writing /\ TakesRep /\ l > 1 /\ Write(1, m, AfterRep(writer.state), RepsAfter(writer.reps, i), l)
  BY <1>1 DEF EncodeRep
<1>3. writer.state \in 0 .. 11 /\ writer.reps \in [1 .. 4 -> Nat] /\ Typed
  BY <1>2, WriterIs DEF Writing
<1>4. /\ i \in 1 .. 4 /\ writer.reps[i] + 1 \in 1 .. pos /\ l \in Nat /\ l <= MatchMaxLen
      /\ Repeats(text, pos, writer.reps[i] + 1, l)
  BY <1>1, <1>2, <1>3, RepTaken
<1>5. pos \in Nat /\ pos + l <= Len(text) /\ l >= MatchMinLen
  BY <1>2, <1>3, <1>4 DEF Repeats, Typed, MatchMinLen
<1>6. AfterRep(writer.state) \in 0 .. 11 /\ IsList(m)
  BY <1>1, <1>3, States, DecisionLists
<1>7. PICK p \in [1 .. 4 -> Nat] : p = RepsAfter(writer.reps, i) /\ p[1] = writer.reps[i]
  BY <1>3, <1>4, RepsAfterIs
<1>8. Write(1, m, AfterRep(writer.state), p, l) /\ p[1] < pos + l
  <2>1. Write(1, m, AfterRep(writer.state), p, l)
    BY <1>2, <1>7
  <2>2. PICK w : w = writer.reps[i]
    OBVIOUS
  <2>3. p[1] = w /\ w + 1 \in 1 .. pos /\ w \in Nat
    BY <1>3, <1>4, <1>7, <2>2
  <2>4. p[1] < pos + l
    BY <1>4, <1>5, <2>3
  <2> QED
    BY <2>1, <2>4
<1>9. SoundPlace(text, Writer')
  BY <1>2, <1>4, <1>5, <1>6, <1>7, <1>8, WrittenSound
<1>10. Goes(stream', Writer, Writer', 1, m, AfterRep(writer.state), p, l)
  BY <1>6, <1>8, WriteGoes DEF LzmaInv
<1>11. RepGoes(text, stream', Writer, Writer', i, l)
  BY <1>1, <1>4, <1>5, <1>7, <1>10 DEF RepGoes, Writer
<1>12. Linked(text, stream', Writer, Writer')
  BY <1>11 DEF Linked, ByRep
<1> QED
  BY <1>2, <1>4, <1>6, <1>8, <1>9, <1>12, WriteInv

LEMMA EncodeShortRepInv == LzmaInv /\ EncodeShortRep => LzmaInv'
<1> SUFFICES ASSUME LzmaInv, EncodeShortRep PROVE LzmaInv'
  OBVIOUS
<1>1. PICK m : m = ShortRepDecisions(writer.state, PosState(pos)) /\ IsList(m)
  BY DecisionLists
<1>2. Writing /\ TakesRep /\ RepLen(BestRep) = 1 /\ Write(1, m, AfterShortRep(writer.state), writer.reps, 1)
  BY <1>1 DEF EncodeShortRep
<1>3. writer.state \in 0 .. 11 /\ writer.reps \in [1 .. 4 -> Nat] /\ Typed
  BY <1>2, WriterIs DEF Writing
<1>4. writer.reps[1] + 1 \in 1 .. pos /\ Repeats(text, pos, writer.reps[1] + 1, 1)
  <2>1. BestRep = 1
    BY <1>2, <1>3, RepTaken
  <2> QED
    BY <1>2, <1>3, <2>1, RepTaken
<1>5. pos \in Nat /\ pos + 1 <= Len(text) /\ writer.reps[1] \in Nat /\ writer.reps[1] < pos + 1
  BY <1>3, <1>4 DEF Repeats, Typed
<1>6. AfterShortRep(writer.state) \in 0 .. 11
  BY <1>3, States
<1>9. SoundPlace(text, Writer')
  BY <1>1, <1>2, <1>3, <1>5, <1>6, WrittenSound
<1>10. Goes(stream', Writer, Writer', 1, m, AfterShortRep(writer.state), writer.reps, 1)
  BY <1>1, <1>2, WriteGoes DEF LzmaInv
<1>11. ByShortRep(text, stream', Writer, Writer')
  BY <1>1, <1>4, <1>10 DEF ByShortRep, Writer
<1>12. Linked(text, stream', Writer, Writer')
  BY <1>11 DEF Linked
<1> QED
  BY <1>1, <1>2, <1>9, <1>12, WriteInv

LEMMA EncodeEndMarkerInv == LzmaInv /\ EncodeEndMarker => LzmaInv'
<1> SUFFICES ASSUME LzmaInv, EncodeEndMarker PROVE LzmaInv'
  OBVIOUS
<1>1. PICK d : d = EndDecisions(writer.state, PosState(pos)) /\ IsList(d)
  BY DecisionLists
<1>2. /\ step = "write" /\ pos = Len(text) /\ stream' = stream \o d /\ step' = "read" /\ text' = text /\ pos' = pos
      /\ writer' = writer /\ table' = table /\ reader' = reader /\ taken' = taken /\ back' = back
  BY <1>1 DEF EncodeEndMarker
<1>3. PICK m, h : m \in Nat /\ Encoded(text, stream, m, h) /\ Reached(m, h)
  BY DEF LzmaInv
<1>4. IsList(stream) /\ Len(stream \o d) = Len(stream) + Len(d) /\ IsList(stream \o d) /\ StandsAt(stream \o d, Len(stream), d)
  BY <1>1, Joined, StandsNew DEF LzmaInv
<1>5. Encoded(text, stream \o d, m, h)
  <2>1. ASSUME NEW i \in 1 .. m PROVE Linked(text, stream \o d, h[i - 1], h[i])
    <3>1. i - 1 \in 0 .. m
      BY <1>3
    <3>2. PICK b : b = h[i - 1] /\ b \in TextPlaces
      BY <1>3, <3>1 DEF Encoded, SoundPlace
    <3>3. Linked(text, stream, b, h[i])
      BY <1>3, <3>2 DEF Encoded
    <3>4. Linked(text, stream \o d, b, h[i])
      BY <1>1, <1>4, <3>2, <3>3, LinkedLonger
    <3> QED
      BY <3>2, <3>4
  <2> QED
    BY <1>3, <2>1 DEF Encoded
<1>6. h[m].at = Len(stream) /\ h[m].pos = pos /\ h[m].coder = writer /\ reader = Fresh0 /\ taken = 0 /\ back = <<>>
  BY <1>2, <1>3 DEF Reached
<1>7. EndsAt(h[m].at)'
  BY <1>1, <1>2, <1>4, <1>6 DEF EndsAt
<1>8. ReadTo(h[0])'
  <2>1. h[0] = Start
    BY <1>3 DEF Encoded
  <2>2. SubSeq(text, 1, 0) = <<>>
    BY DEF LzmaInv
  <2> QED
    BY <1>2, <1>6, <2>1, <2>2 DEF ReadTo, Start
<1>9. Reached(m, h)'
  <2>1. 0 \in 0 .. m
    BY <1>3
  <2> QED
    BY <1>2, <1>6, <1>7, <1>8, <2>1 DEF Reached
<1>10. Encoded(text', stream', m, h) /\ m \in Nat
  BY <1>2, <1>3, <1>5
<1>11. text' \in Seq(Letters) /\ pos' \in 0 .. Len(text') /\ table' \subseteq 0 .. pos' - 1 /\ IsList(stream')
  BY <1>2, <1>4 DEF LzmaInv
<1> QED
  BY <1>9, <1>10, <1>11 DEF LzmaInv

(***************************************************************************)
(* Decoding.  What the decoder finds is the symbol that stands there, and it *)
(* comes to the next place.                                                *)
(***************************************************************************)
Arrives(c) == reader' = c.coder /\ taken' = c.at /\ back' = SubSeq(text, 1, c.pos)

LEMMA ReaderIs ==
  ASSUME LzmaInv, NEW b, SoundPlace(text, b), ReadTo(b)
  PROVE  /\ taken \in Nat /\ taken = b.at /\ reader = b.coder
         /\ b.pos \in 0 .. Len(text) /\ Len(back) = b.pos /\ back = SubSeq(text, 1, b.pos)
         /\ reader.state \in 0 .. 11 /\ reader.reps \in [1 .. 4 -> Nat]
         /\ reader.state >= 7 => Predicted(reader, back) \in Letters
         /\ IsList(stream) /\ text \in Seq(Letters)
<1>1. b \in TextPlaces /\ text \in Seq(Letters) /\ b.pos <= Len(text) /\ IsList(stream)
  BY DEF SoundPlace, LzmaInv
<1>2. taken \in Nat /\ b.pos \in 0 .. Len(text) /\ reader.state \in 0 .. 11 /\ reader.reps \in [1 .. 4 -> Nat]
  BY <1>1 DEF ReadTo, TextPlaces
<1>3. Len(back) = b.pos /\ \A i \in 1 .. b.pos : back[i] = text[i]
  BY <1>1, <1>2, Beginning DEF ReadTo
<1>4. ASSUME reader.state >= 7 PROVE Predicted(reader, back) \in Letters
  <2>1. reader.reps[1] \in Nat /\ reader.reps[1] < b.pos
    BY <1>2, <1>4 DEF SoundPlace, ReadTo
  <2>2. PICK k \in 1 .. b.pos : k = Len(back) - reader.reps[1]
    BY <1>2, <1>3, <2>1
  <2>3. back[k] = text[k] /\ text[k] \in Letters
    BY <1>1, <1>2, <1>3, <2>2
  <2> QED
    BY <1>4, <2>2, <2>3 DEF Predicted
<1> QED
  BY <1>1, <1>2, <1>3, <1>4 DEF ReadTo

LEMMA StandsAhead ==
  ASSUME taken \in Nat, NEW d, StandsAt(stream, taken, d)
  PROVE  Ahead(Here, d, taken + Len(d))
BY DEF Ahead, Here

\* What the decoder has ahead of it.
LEMMA GoesAhead ==
  ASSUME LzmaInv, NEW b, SoundPlace(text, b), ReadTo(b), NEW c, NEW v, NEW rest, NEW state, NEW reps, NEW n,
         Goes(stream, b, c, v, rest, state, reps, n)
  PROVE  /\ Ahead(Here, D(IsMatch(reader, Len(back)), v) \o rest, c.at)
         /\ c.pos = b.pos + n /\ c.coder = [state |-> state, reps |-> reps]
<1>1. PICK d : d = SymbolDecisions(b, v, rest)
  OBVIOUS
<1>2. d = D(IsMatch(reader, Len(back)), v) \o rest
  BY <1>1, ReaderIs DEF SymbolDecisions
<1>3. /\ StandsAt(stream, b.at, d)
      /\ c = [at |-> b.at + Len(d), pos |-> b.pos + n, coder |-> [state |-> state, reps |-> reps]]
  BY <1>1 DEF Goes
<1>4. taken = b.at /\ taken \in Nat
  BY ReaderIs
<1>5. Ahead(Here, d, taken + Len(d))
  BY <1>3, <1>4, StandsAhead
<1> QED
  BY <1>2, <1>3, <1>4, <1>5

LEMMA DecodesLiteral ==
  ASSUME LzmaInv, NEW b, SoundPlace(text, b), ReadTo(b), NEW c, ByLiteral(text, stream, b, c)
  PROVE  Symbol.r.ok = TRUE /\ Symbol.kind = "literal" /\ (DecodeLiteral => Arrives(c))
<1>1. /\ b.pos \in 0 .. Len(text) /\ Len(back) = b.pos /\ back = SubSeq(text, 1, b.pos) /\ reader = b.coder
      /\ text \in Seq(Letters) /\ IsList(stream) /\ (reader.state >= 7 => Predicted(reader, back) \in Letters)
  BY ReaderIs
<1>2. PICK x \in Letters : x = text[b.pos + 1] /\ b.pos + 1 \in 1 .. Len(text)
  BY <1>1 DEF ByLiteral
<1>3. PICK l : l = Literal(reader, back, x)
  OBVIOUS
<1>4. Goes(stream, b, c, 0, l, AfterLiteral(reader.state), reader.reps, 1)
  BY <1>1, <1>2, <1>3 DEF ByLiteral
<1>5. /\ Ahead(Here, D(IsMatch(reader, Len(back)), 0) \o l, c.at)
      /\ c.pos = b.pos + 1 /\ c.coder = [state |-> AfterLiteral(reader.state), reps |-> reader.reps]
  BY <1>4, GoesAhead
<1>6. Finds(Symbol, "literal", 0, 1, 0, c.at) /\ Symbol.r.v = x
  BY <1>1, <1>3, <1>5, FindsLiteral
<1>7. Append(back, x) = SubSeq(text, 1, b.pos + 1)
  BY <1>1, <1>2
<1>8. ASSUME DecodeLiteral PROVE Arrives(c)
  <2>1. /\ reader' = [state |-> AfterLiteral(reader.state), reps |-> reader.reps] /\ taken' = Symbol.r.at
        /\ back' = Append(back, Symbol.r.v)
    BY <1>8 DEF DecodeLiteral, Read
  <2> QED
    BY <1>5, <1>6, <1>7, <2>1 DEF Arrives, Finds
<1> QED
  BY <1>6, <1>8 DEF Finds

LEMMA DecodesMatch ==
  ASSUME LzmaInv, NEW b, SoundPlace(text, b), ReadTo(b), NEW c, ByMatch(text, stream, b, c)
  PROVE  /\ Symbol.r.ok = TRUE /\ Symbol.kind = "match" /\ Symbol.dist < DictSize /\ Symbol.dist < Len(back)
         /\ DecodeMatch => Arrives(c)
<1>1. /\ b.pos \in 0 .. Len(text) /\ Len(back) = b.pos /\ back = SubSeq(text, 1, b.pos) /\ reader = b.coder
      /\ text \in Seq(Letters) /\ IsList(stream)
  BY ReaderIs
<1>2. PICK d, l : MatchGoes(text, stream, b, c, d, l)
  BY DEF ByMatch
<1>3. /\ d \in 1 .. b.pos /\ d <= DictSize /\ l \in Nat /\ l >= MatchMinLen /\ l <= MatchMaxLen
      /\ Repeats(text, b.pos, d, l)
  BY <1>2 DEF MatchGoes
<1>4. PICK m : m = MatchDecisions(reader.state, PosState(Len(back)), d, l)
  OBVIOUS
<1>5. Goes(stream, b, c, 1, m, AfterMatch(reader.state), Pushed(reader.reps, d - 1), l)
  BY <1>1, <1>2, <1>4 DEF MatchGoes
<1>6. /\ Ahead(Here, D(IsMatch(reader, Len(back)), 1) \o m, c.at)
      /\ c.pos = b.pos + l /\ c.coder = [state |-> AfterMatch(reader.state), reps |-> Pushed(reader.reps, d - 1)]
  BY <1>5, GoesAhead
<1>7. DictSize \in Nat /\ d \in 1 .. DictSize
  BY <1>1, <1>3, SizesAssumption
<1>8. Finds(Symbol, "match", 0, l - MatchMinLen, d - 1, c.at)
  BY <1>1, <1>3, <1>4, <1>6, <1>7, FindsMatch
<1>9. Copied(d, l) = SubSeq(text, 1, b.pos + l)
  BY <1>1, <1>3, CopiedIs
<1>10. (d - 1) + 1 = d /\ (l - MatchMinLen) + MatchMinLen = l
  BY <1>1, <1>3 DEF MatchMinLen
<1>11. ASSUME DecodeMatch PROVE Arrives(c)
  <2>1. /\ reader' = [state |-> AfterMatch(reader.state), reps |-> Pushed(reader.reps, Symbol.dist)]
        /\ taken' = Symbol.r.at /\ back' = Copied(Symbol.dist + 1, Symbol.len + MatchMinLen)
    BY <1>11 DEF DecodeMatch, Read
  <2>2. Symbol.dist = d - 1 /\ Symbol.len = l - MatchMinLen /\ Symbol.r.at = c.at
    BY <1>8 DEF Finds
  <2>3. Symbol.dist + 1 = d /\ Symbol.len + MatchMinLen = l
    BY <1>10, <2>2
  <2> QED
    BY <1>6, <1>9, <2>1, <2>2, <2>3 DEF Arrives
<1>12. d - 1 < DictSize /\ d - 1 < Len(back)
  BY <1>1, <1>3, <1>7
<1> QED
  BY <1>8, <1>11, <1>12 DEF Finds

\* The four distances as the decoder moves them.
Turned(d, i) ==
  CASE i = 1 -> d
    [] i = 2 -> <<d[2], d[1], d[3], d[4]>>
    [] i = 3 -> <<d[3], d[1], d[2], d[4]>>
    [] OTHER -> <<d[4], d[1], d[2], d[3]>>

LEMMA TurnedIs ==
  ASSUME NEW d \in [1 .. 4 -> Nat], NEW i \in 1 .. 4
  PROVE  Turned(d, i) = RepsAfter(d, i)
<1>1. i = 1 \/ i = 2 \/ i = 3 \/ i = 4
  OBVIOUS
<1>2. RepsAfter(d, i) \in [1 .. 4 -> Nat]
  BY RepsAfterIs
<1>3. Turned(d, i) \in [1 .. 4 -> Nat]
  <2>1. \A x, y, u, w \in Nat : <<x, y, u, w>> \in [1 .. 4 -> Nat]
    OBVIOUS
  <2>2. d[1] \in Nat /\ d[2] \in Nat /\ d[3] \in Nat /\ d[4] \in Nat
    OBVIOUS
  <2> QED
    BY <1>1, <2>1, <2>2 DEF Turned
<1>4. ASSUME NEW k \in 1 .. 4 PROVE Turned(d, i)[k] = RepsAfter(d, i)[k]
  <2>1. k = 1 \/ k = 2 \/ k = 3 \/ k = 4
    OBVIOUS
  <2>2. RepsAfter(d, i)[k] = IF k = 1 THEN d[i] ELSE IF k <= i THEN d[k - 1] ELSE d[k]
    BY DEF RepsAfter
  <2>3. CASE i = 1
    BY <2>1, <2>2, <2>3 DEF Turned
  <2>4. CASE i = 2
    BY <2>1, <2>2, <2>4 DEF Turned
  <2>5. CASE i = 3
    BY <2>1, <2>2, <2>5 DEF Turned
  <2>6. CASE i = 4
    BY <2>1, <2>2, <2>6 DEF Turned
  <2> QED
    BY <1>1, <2>3, <2>4, <2>5, <2>6
<1> QED
  BY <1>2, <1>3, <1>4

LEMMA DecodesRep ==
  ASSUME LzmaInv, NEW b, SoundPlace(text, b), ReadTo(b), NEW c, ByRep(text, stream, b, c)
  PROVE  /\ Symbol.r.ok = TRUE /\ Symbol.kind = "rep" /\ reader.reps[Symbol.i] < Len(back)
         /\ DecodeRep => Arrives(c)
<1>1. /\ b.pos \in 0 .. Len(text) /\ Len(back) = b.pos /\ back = SubSeq(text, 1, b.pos) /\ reader = b.coder
      /\ text \in Seq(Letters) /\ IsList(stream) /\ reader.reps \in [1 .. 4 -> Nat]
  BY ReaderIs
<1>2. PICK i, l : RepGoes(text, stream, b, c, i, l)
  BY DEF ByRep
<1>3. /\ i \in 1 .. 4 /\ reader.reps[i] + 1 \in 1 .. b.pos /\ l \in Nat /\ l >= MatchMinLen /\ l <= MatchMaxLen
      /\ Repeats(text, b.pos, reader.reps[i] + 1, l)
  BY <1>1, <1>2 DEF RepGoes
<1>4. PICK m : m = RepDecisions(reader.state, PosState(Len(back)), i, l)
  OBVIOUS
<1>5. Goes(stream, b, c, 1, m, AfterRep(reader.state), RepsAfter(reader.reps, i), l)
  BY <1>1, <1>2, <1>4 DEF RepGoes
<1>6. /\ Ahead(Here, D(IsMatch(reader, Len(back)), 1) \o m, c.at)
      /\ c.pos = b.pos + l /\ c.coder = [state |-> AfterRep(reader.state), reps |-> RepsAfter(reader.reps, i)]
  BY <1>5, GoesAhead
<1>7. Finds(Symbol, "rep", i, l - MatchMinLen, 0, c.at)
  BY <1>1, <1>3, <1>4, <1>6, FindsRep
<1>8. Copied(reader.reps[i] + 1, l) = SubSeq(text, 1, b.pos + l)
  BY <1>1, <1>3, CopiedIs
<1>9. (l - MatchMinLen) + MatchMinLen = l
  BY <1>3 DEF MatchMinLen
<1>10. ASSUME DecodeRep PROVE Arrives(c)
  <2>1. /\ reader' = [state |-> AfterRep(reader.state), reps |-> Turned(reader.reps, Symbol.i)]
        /\ taken' = Symbol.r.at /\ back' = Copied(reader.reps[Symbol.i] + 1, Symbol.len + MatchMinLen)
    BY <1>10 DEF DecodeRep, Read, Turned
  <2>2. Symbol.i = i /\ Symbol.len = l - MatchMinLen /\ Symbol.r.at = c.at
    BY <1>7 DEF Finds
  <2>3. Turned(reader.reps, Symbol.i) = RepsAfter(reader.reps, i) /\ Symbol.len + MatchMinLen = l
    BY <1>1, <1>3, <1>9, <2>2, TurnedIs
  <2> QED
    BY <1>6, <1>8, <2>1, <2>2, <2>3 DEF Arrives
<1>11. reader.reps[i] < Len(back)
  <2>1. PICK x \in Nat : x = reader.reps[i]
    BY <1>1, <1>3
  <2>2. PICK p \in Int : p = Len(back) /\ p = b.pos
    BY <1>1
  <2>3. x < p
    BY <1>3, <2>1, <2>2
  <2> QED
    BY <2>1, <2>2, <2>3
<1> QED
  BY <1>7, <1>10, <1>11 DEF Finds

LEMMA DecodesShortRep ==
  ASSUME LzmaInv, NEW b, SoundPlace(text, b), ReadTo(b), NEW c, ByShortRep(text, stream, b, c)
  PROVE  /\ Symbol.r.ok = TRUE /\ Symbol.kind = "short" /\ Symbol.i = 1 /\ reader.reps[1] < Len(back)
         /\ DecodeShortRep => Arrives(c)
<1>1. /\ b.pos \in 0 .. Len(text) /\ Len(back) = b.pos /\ back = SubSeq(text, 1, b.pos) /\ reader = b.coder
      /\ text \in Seq(Letters) /\ IsList(stream) /\ reader.reps \in [1 .. 4 -> Nat]
  BY ReaderIs
<1>3. reader.reps[1] + 1 \in 1 .. b.pos /\ Repeats(text, b.pos, reader.reps[1] + 1, 1)
  BY <1>1 DEF ByShortRep
<1>4. PICK m : m = ShortRepDecisions(reader.state, PosState(Len(back)))
  OBVIOUS
<1>5. Goes(stream, b, c, 1, m, AfterShortRep(reader.state), reader.reps, 1)
  BY <1>1, <1>4 DEF ByShortRep
<1>6. /\ Ahead(Here, D(IsMatch(reader, Len(back)), 1) \o m, c.at)
      /\ c.pos = b.pos + 1 /\ c.coder = [state |-> AfterShortRep(reader.state), reps |-> reader.reps]
  BY <1>5, GoesAhead
<1>7. Finds(Symbol, "short", 1, 1, 0, c.at)
  BY <1>1, <1>4, <1>6, FindsShort
<1>8. Copied(reader.reps[1] + 1, 1) = SubSeq(text, 1, b.pos + 1)
  BY <1>1, <1>3, CopiedIs
<1>10. ASSUME DecodeShortRep PROVE Arrives(c)
  <2>1. /\ reader' = [state |-> AfterShortRep(reader.state), reps |-> reader.reps]
        /\ taken' = Symbol.r.at /\ back' = Copied(reader.reps[1] + 1, 1)
    BY <1>10 DEF DecodeShortRep, Read
  <2> QED
    BY <1>6, <1>7, <1>8, <2>1 DEF Arrives, Finds
<1>11. reader.reps[1] < Len(back)
  BY <1>1, <1>3, SMTT(30)
<1> QED
  BY <1>7, <1>10, <1>11 DEF Finds

\* The decoder at its last place.
LEMMA DecodesEnd ==
  ASSUME LzmaInv, NEW b, SoundPlace(text, b), ReadTo(b), b.pos = pos, b.coder = writer, pos = Len(text), EndsAt(b.at)
  PROVE  /\ Symbol.r.ok = TRUE /\ Symbol.kind = "end" /\ back = text
         /\ DecodeEnd => taken' = Len(stream)
<1>1. /\ Len(back) = pos /\ back = SubSeq(text, 1, pos) /\ reader = writer /\ taken = b.at /\ taken \in Nat
      /\ text \in Seq(Letters) /\ IsList(stream)
  BY ReaderIs
<1>2. PICK d : d = EndDecisions(reader.state, PosState(Len(back)))
  OBVIOUS
<1>3. StandsAt(stream, taken, d) /\ taken + Len(d) = Len(stream)
  BY <1>1, <1>2 DEF EndsAt
<1>4. Ahead(Here, d, taken + Len(d))
  BY <1>1, <1>3, StandsAhead
<1>5. Ahead(Here, d, Len(stream))
  BY <1>3, <1>4
<1>6. Finds(Symbol, "end", 0, 0, EndMarker, Len(stream))
  BY <1>1, <1>2, <1>5, FindsEnd
<1>7. back = text
  BY <1>1
<1> QED
  BY <1>6, <1>7 DEF Finds, DecodeEnd

\* A decoder that is reading is at a place of the course: the last, or one from
\* which a symbol leads on.
LEMMA ReadingIs ==
  ASSUME LzmaInv, step = "read"
  PROVE  \E n, h, k : /\ n \in Nat /\ Encoded(text, stream, n, h) /\ Reached(n, h)
                      /\ k \in 0 .. n /\ SoundPlace(text, h[k]) /\ ReadTo(h[k])
                      /\ k = n \/ (k + 1 \in 1 .. n /\ Linked(text, stream, h[k], h[k + 1]))
<1>1. PICK n, h : n \in Nat /\ Encoded(text, stream, n, h) /\ Reached(n, h)
  BY DEF LzmaInv
<1>2. PICK k \in 0 .. n : ReadTo(h[k])
  BY <1>1 DEF Reached
<1>3. SoundPlace(text, h[k])
  BY <1>1, <1>2 DEF Encoded
<1>4. k = n \/ (k + 1 \in 1 .. n /\ Linked(text, stream, h[k], h[k + 1]))
  <2> SUFFICES ASSUME k # n PROVE k + 1 \in 1 .. n /\ Linked(text, stream, h[k], h[k + 1])
    OBVIOUS
  <2>1. PICK j \in 1 .. n : j = k + 1 /\ j - 1 = k
    BY <1>1, <1>2
  <2>2. Linked(text, stream, h[j - 1], h[j])
    BY <1>1, <2>1 DEF Encoded
  <2> QED
    BY <2>1, <2>2
<1> QED
  BY <1>1, <1>2, <1>3, <1>4

LEMMA LastEnds ==
  ASSUME LzmaInv, step = "read", NEW n \in Nat, NEW h, Encoded(text, stream, n, h), Reached(n, h), ReadTo(h[n])
  PROVE  /\ Symbol.r.ok = TRUE /\ Symbol.kind = "end" /\ back = text
         /\ DecodeEnd => taken' = Len(stream)
<1>1. PICK b : b = h[n]
  OBVIOUS
<1>2. SoundPlace(text, b) /\ ReadTo(b) /\ b.pos = pos /\ b.coder = writer /\ pos = Len(text) /\ EndsAt(b.at)
  BY <1>1 DEF Encoded, Reached
<1> QED
  BY <1>2, DecodesEnd

\* A step along the course.
LEMMA ReadOn ==
  ASSUME LzmaInv, step = "read", NEW n \in Nat, NEW h, Encoded(text, stream, n, h), Reached(n, h),
         NEW k \in 1 .. n, Arrives(h[k]), UNCHANGED <<text, pos, writer, table, stream, step>>
  PROVE  LzmaInv'
<1>1. ReadTo(h[k])'
  BY DEF Arrives, ReadTo
<1>2. k \in 0 .. n
  OBVIOUS
<1>3. Reached(n, h)'
  <2>1. EndsAt(h[n].at)'
    BY DEF Reached, EndsAt
  <2> QED
    BY <1>1, <1>2, <2>1 DEF Reached
<1>4. Encoded(text', stream', n, h)
  OBVIOUS
<1> QED
  BY <1>3, <1>4 DEF LzmaInv

LEMMA DecodingInv == LzmaInv /\ step = "read" /\ Decoding => LzmaInv'
<1> SUFFICES ASSUME LzmaInv, step = "read", Decoding PROVE LzmaInv'
  OBVIOUS
<1>1. PICK n, h, k : /\ n \in Nat /\ Encoded(text, stream, n, h) /\ Reached(n, h)
                     /\ k \in 0 .. n /\ SoundPlace(text, h[k]) /\ ReadTo(h[k])
                     /\ k = n \/ (k + 1 \in 1 .. n /\ Linked(text, stream, h[k], h[k + 1]))
  BY ReadingIs
<1>2. PICK b : b = h[k]
  OBVIOUS
<1>3. /\ DecodeLiteral => Symbol.kind = "literal"
      /\ DecodeShortRep => Symbol.kind = "short"
      /\ DecodeRep => Symbol.kind = "rep"
      /\ DecodeMatch => Symbol.kind = "match"
      /\ DecodeEnd => Symbol.kind = "end"
  BY DEF DecodeLiteral, DecodeShortRep, DecodeRep, DecodeMatch, DecodeEnd, Reads
<1>4. CASE k = n
  <2>1. Symbol.kind = "end" /\ back = text /\ (DecodeEnd => taken' = Len(stream))
    BY <1>1, <1>4, LastEnds
  <2>2. DecodeEnd
    BY <1>3, <2>1 DEF Decoding
  <2>3. /\ step' = "end" /\ taken' = Len(stream) /\ text' = text /\ pos' = pos /\ writer' = writer /\ table' = table
        /\ stream' = stream /\ back' = back
    BY <2>1, <2>2 DEF DecodeEnd
  <2>4. EndsAt(h[n].at)'
    BY <1>1, <2>3 DEF Reached, EndsAt
  <2>5. Reached(n, h)'
    BY <1>1, <2>1, <2>3, <2>4 DEF Reached
  <2>6. Encoded(text', stream', n, h)
    BY <1>1, <2>3
  <2> QED
    BY <1>1, <2>3, <2>5, <2>6 DEF LzmaInv
<1>5. ASSUME k + 1 \in 1 .. n, Linked(text, stream, h[k], h[k + 1]) PROVE LzmaInv'
  <2>1. PICK j, c : j \in 1 .. n /\ j = k + 1 /\ c = h[j] /\ Linked(text, stream, b, c)
    BY <1>2, <1>5
  <2>2. SoundPlace(text, b) /\ ReadTo(b)
    BY <1>1, <1>2
  <2>3. Arrives(c) /\ UNCHANGED <<text, pos, writer, table, stream, step>>
    <3>1. CASE ByLiteral(text, stream, b, c)
      <4>1. Symbol.kind = "literal" /\ (DecodeLiteral => Arrives(c))
        BY <2>2, <3>1, DecodesLiteral
      <4>2. DecodeLiteral
        BY <1>3, <4>1 DEF Decoding
      <4> QED
        BY <4>1, <4>2 DEF DecodeLiteral, Read
    <3>2. CASE ByMatch(text, stream, b, c)
      <4>1. Symbol.kind = "match" /\ (DecodeMatch => Arrives(c))
        BY <2>2, <3>2, DecodesMatch
      <4>2. DecodeMatch
        BY <1>3, <4>1 DEF Decoding
      <4> QED
        BY <4>1, <4>2 DEF DecodeMatch, Read
    <3>3. CASE ByRep(text, stream, b, c)
      <4>1. Symbol.kind = "rep" /\ (DecodeRep => Arrives(c))
        BY <2>2, <3>3, DecodesRep
      <4>2. DecodeRep
        BY <1>3, <4>1 DEF Decoding
      <4> QED
        BY <4>1, <4>2 DEF DecodeRep, Read
    <3>4. CASE ByShortRep(text, stream, b, c)
      <4>1. Symbol.kind = "short" /\ (DecodeShortRep => Arrives(c))
        BY <2>2, <3>4, DecodesShortRep
      <4>2. DecodeShortRep
        BY <1>3, <4>1 DEF Decoding
      <4> QED
        BY <4>1, <4>2 DEF DecodeShortRep, Read
    <3> QED
      BY <2>1, <3>1, <3>2, <3>3, <3>4 DEF Linked
  <2> QED
    BY <1>1, <2>1, <2>3, ReadOn
<1> QED
  BY <1>1, <1>4, <1>5

LEMMA LzmaStays == LzmaInv /\ UNCHANGED lzmaVars => LzmaInv'
<1> SUFFICES ASSUME LzmaInv, UNCHANGED lzmaVars PROVE LzmaInv'
  OBVIOUS
<1>1. UNCHANGED <<text, pos, writer, table, stream, reader, taken, back, step>>
  BY DEF lzmaVars
<1>2. PICK n, h : n \in Nat /\ Encoded(text, stream, n, h) /\ Reached(n, h)
  BY DEF LzmaInv
<1>3. ASSUME NEW b PROVE (ReadTo(b)' <=> ReadTo(b)) /\ (EndsAt(b)' <=> EndsAt(b))
  BY <1>1 DEF ReadTo, EndsAt
<1>4. Reached(n, h)'
  BY <1>1, <1>2, <1>3 DEF Reached
<1>5. Encoded(text', stream', n, h)
  BY <1>1, <1>2
<1> QED
  BY <1>1, <1>2, <1>4, <1>5 DEF LzmaInv

LEMMA LzmaNextInv == LzmaInv /\ [LzmaNext]_lzmaVars => LzmaInv'
<1> SUFFICES ASSUME LzmaInv, [LzmaNext]_lzmaVars PROVE LzmaInv'
  OBVIOUS
<1>1. CASE EncodeLiteral
  BY <1>1, EncodeLiteralInv
<1>2. CASE EncodeMatch
  BY <1>2, EncodeMatchInv
<1>3. CASE EncodeRep
  BY <1>3, EncodeRepInv
<1>4. CASE EncodeShortRep
  BY <1>4, EncodeShortRepInv
<1>5. CASE EncodeEndMarker
  BY <1>5, EncodeEndMarkerInv
<1>6. CASE Decoding
  <2>1. step = "read"
    BY <1>6 DEF Decoding, DecodeLiteral, DecodeShortRep, DecodeRep, DecodeMatch, DecodeEnd, Reads
  <2> QED
    BY <1>6, <2>1, DecodingInv
<1>7. CASE UNCHANGED lzmaVars
  BY <1>7, LzmaStays
<1> QED
  BY <1>1, <1>2, <1>3, <1>4, <1>5, <1>6, <1>7 DEF LzmaNext

\* The invariant says what the property does.
LEMMA LzmaInvReads == LzmaInv => DecodesBack
<1> SUFFICES ASSUME LzmaInv PROVE DecodesBack
  OBVIOUS
<1>1. ASSUME step = "read"
      PROVE  /\ Len(back) <= Len(text) /\ back = SubSeq(text, 1, Len(back)) /\ Symbol.r.ok
             /\ Symbol.kind = "match" => Symbol.dist < DictSize /\ Symbol.dist < Len(back)
             /\ Symbol.kind \in {"rep", "short"} => reader.reps[Symbol.i] < Len(back)
  <2>1. PICK n, h, k : /\ n \in Nat /\ Encoded(text, stream, n, h) /\ Reached(n, h)
                       /\ k \in 0 .. n /\ SoundPlace(text, h[k]) /\ ReadTo(h[k])
                       /\ k = n \/ (k + 1 \in 1 .. n /\ Linked(text, stream, h[k], h[k + 1]))
    BY <1>1, ReadingIs
  <2>2. PICK b, c : b = h[k] /\ c = h[k + 1]
    OBVIOUS
  <2>3. SoundPlace(text, b) /\ ReadTo(b)
    BY <2>1, <2>2
  <2>4. b.pos \in 0 .. Len(text) /\ Len(back) = b.pos /\ back = SubSeq(text, 1, b.pos)
    BY <2>3, ReaderIs
  <2>5. Len(back) <= Len(text) /\ back = SubSeq(text, 1, Len(back))
    BY <2>4
  <2>6. CASE k = n
    <3>1. Symbol.r.ok = TRUE /\ Symbol.kind = "end"
      BY <1>1, <2>1, <2>6, LastEnds
    <3> QED
      BY <2>5, <3>1
  <2>7. CASE ByLiteral(text, stream, b, c)
    <3>1. Symbol.r.ok = TRUE /\ Symbol.kind = "literal"
      BY <2>3, <2>7, DecodesLiteral
    <3> QED
      BY <2>5, <3>1
  <2>8. CASE ByMatch(text, stream, b, c)
    <3>1. Symbol.r.ok = TRUE /\ Symbol.kind = "match" /\ Symbol.dist < DictSize /\ Symbol.dist < Len(back)
      BY <2>3, <2>8, DecodesMatch
    <3> QED
      BY <2>5, <3>1
  <2>9. CASE ByRep(text, stream, b, c)
    <3>1. Symbol.r.ok = TRUE /\ Symbol.kind = "rep" /\ reader.reps[Symbol.i] < Len(back)
      BY <2>3, <2>9, DecodesRep
    <3> QED
      BY <2>5, <3>1
  <2>10. CASE ByShortRep(text, stream, b, c)
    <3>1. Symbol.r.ok = TRUE /\ Symbol.kind = "short" /\ reader.reps[Symbol.i] < Len(back)
      BY <2>3, <2>10, DecodesShortRep
    <3> QED
      BY <2>5, <3>1
  <2> QED
    BY <2>1, <2>2, <2>6, <2>7, <2>8, <2>9, <2>10 DEF Linked
<1>2. ASSUME step = "end"
      PROVE  Len(back) <= Len(text) /\ back = SubSeq(text, 1, Len(back)) /\ back = text /\ taken = Len(stream)
  <2>1. back = text /\ taken = Len(stream) /\ text \in Seq(Letters)
    BY <1>2 DEF LzmaInv, Reached
  <2>2. Len(text) <= Len(text) /\ text = SubSeq(text, 1, Len(text))
    BY <2>1
  <2> QED
    BY <2>1, <2>2
<1>3. step \in {"write", "read", "end"}
  BY DEF LzmaInv, Reached
<1> QED
  BY <1>1, <1>2, <1>3 DEF DecodesBack

\* For texts over bytes of any width, any dictionary, lengths and chains: the LZMA
\* decoder makes of the encoder's decisions the text they were made of, and never
\* refuses one.
THEOREM DecodesBackCorrect == LzmaSpec => []DecodesBack
<1>1. LzmaInit => LzmaInv
  BY LzmaInitInv
<1>2. LzmaInv /\ [LzmaNext]_lzmaVars => LzmaInv'
  BY LzmaNextInv
<1>3. LzmaInv => DecodesBack
  BY LzmaInvReads
<1> QED
  BY <1>1, <1>2, <1>3, PTL DEF LzmaSpec

=============================================================================
