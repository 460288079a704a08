----------------------------- MODULE BootProofs -----------------------------
(***************************************************************************)
(* Theorems about what runs at a boot: the requests the rescue menu leaves *)
(* (BootRequests), for any set of repairs; the hand-over to the installed  *)
(* system (HandOver), for any disks, settings and number of boots; the     *)
(* nodes of the loader's disk (BootNodes), for any disks, names and        *)
(* partitions; and the guard (FlasherGuard), for any programs, attempts and*)
(* log, however often that is cut.                                         *)
(***************************************************************************)
EXTENDS BootRequests, HandOver, BootNodes, FlasherGuard, FiniteSetTheorems, TLAPS

(***************************************************************************)
(* BootRequests.                                                           *)
(***************************************************************************)

\* The parts of the strengthening.  The queue, on the medium and in the cache,
\* and what was taken from it are all still owed;
Owed == queue \subseteq owed /\ queueDisk \subseteq owed /\ todo \subseteq owed
\* repairs only run after the removal has reached the medium;
Removed ==
  /\ stage \in {"taken", "repair", "copied"} => queue = {}
  /\ stage \in {"repair", "copied"} => queueDisk = {}
\* the copy just made is whole;
Copied == stage = "copied" => now \in todo /\ bak[now] = db[now]
\* and a request reported done is on the medium.
Synced ==
  /\ acked => next = "loader" /\ nextDisk = "loader"
  /\ stage = "writing" => next = "loader"

IInv == TypeOK /\ Owed /\ Removed /\ Copied /\ Synced

\* A file left by a power loss is one of the things Remains names.
LEMMA RemainsTyped ==
  ASSUME NEW S, NEW d \in S, NEW c \in S, NEW T, NEW r \in Remains(d, c, T)
  PROVE  r \in S \cup T
BY DEF Remains

\* A cached and synced pair leaves itself behind.
LEMMA RemainsSame ==
  ASSUME NEW d, NEW T, NEW r \in Remains(d, d, T)
  PROVE  r = d
BY DEF Remains

\* The strengthening holds at the start.
LEMMA InitIInv == Init => IInv
<1> SUFFICES ASSUME Init PROVE IInv
  OBVIOUS
<1>1. TypeOK
  BY DEF Init, TypeOK, Stages, Copies
<1> QED
  BY <1>1 DEF Init, IInv, Owed, Removed, Copied, Synced

\* A power loss keeps it.
LEMMA PowerLossIInv == IInv /\ PowerLoss => IInv'
<1> SUFFICES ASSUME IInv, PowerLoss PROVE IInv'
  OBVIOUS
<1> USE DEF PowerLoss, Goto
<1> TypeOK
  BY DEF IInv
<1>1. nextDisk' \in {"idle", "loader", Torn}
  BY RemainsTyped DEF TypeOK, Remains
<1>2. next' \in {"idle", "loader"}
  BY <1>1
<1>3. queueDisk' \in SUBSET Tasks /\ queueDisk' \subseteq owed
  BY DEF TypeOK, Remains, IInv, Owed
<1>4. bakDisk' \in Copies
  OBVIOUS
<1>5. TypeOK'
  BY <1>1, <1>2, <1>3, <1>4 DEF TypeOK, Stages
<1>6. Synced'
  <2> SUFFICES ASSUME acked' PROVE next' = "loader" /\ nextDisk' = "loader"
    BY DEF Synced
  <2>1. next = "loader" /\ nextDisk = "loader"
    BY DEF IInv, Synced
  <2>2. nextDisk' = "loader"
    BY <2>1 DEF Remains
  <2> QED
    BY <2>2, RequestsAssumption
<1>7. Owed'
  BY <1>3 DEF IInv, Owed
<1> QED
  BY <1>5, <1>6, <1>7 DEF IInv, Removed, Copied

\* So do GRUB and the loader.
LEMMA LoaderIInv == IInv /\ (GrubDefault \/ GrubReconfigure \/ Loader) => IInv'
<1> SUFFICES ASSUME IInv, GrubDefault \/ GrubReconfigure \/ Loader PROVE IInv'
  OBVIOUS
<1> USE DEF IInv, Goto, history, queueVars, dsmVars, nextVars
<1>1. CASE GrubDefault \/ GrubReconfigure
  BY <1>1 DEF GrubDefault, GrubReconfigure, TypeOK, Stages, Owed, Removed, Copied, Synced
<1>2. CASE StartLoader
  <2>1. TypeOK'
    BY <1>2, RequestsAssumption DEF StartLoader, Reset, TypeOK, Stages
  <2> QED
    BY <1>2, <2>1 DEF StartLoader, Owed, Removed, Copied, Synced
<1>3. ASSUME NEW chosen \in SUBSET Tasks, DsmFixMenu(chosen) PROVE IInv'
  <2>1. TypeOK'
    BY <1>3 DEF DsmFixMenu, TypeOK, Stages
  <2>2. Owed'
    BY <1>3 DEF DsmFixMenu, Owed
  <2> QED
    BY <1>3, <2>1, <2>2 DEF DsmFixMenu, Removed, Copied, Synced
<1>4. CASE LeaveLoader
  BY <1>4 DEF LeaveLoader, TypeOK, Stages, Owed, Removed, Copied, Synced
<1> QED
  BY <1>1, <1>2, <1>3, <1>4 DEF Loader

\* So do the helper's steps: a copy is made right before its change, and what
\* is changed is no longer in the queue nor among what is left to do.
LEMMA RepairsIInv == IInv /\ Repairs => IInv'
<1> SUFFICES ASSUME IInv, Repairs PROVE IInv'
  OBVIOUS
<1> USE DEF IInv, Goto, history, queueVars, dsmVars, nextVars
<1>1. CASE TakeNothing
  BY <1>1 DEF TakeNothing, TypeOK, Stages, Owed, Removed, Copied, Synced
<1>2. CASE TakeRemoves
  BY <1>2 DEF TakeRemoves, TypeOK, Stages, Owed, Removed, Copied, Synced
<1>3. CASE TakeSyncs
  BY <1>3 DEF TakeSyncs, TypeOK, Stages, Owed, Removed, Copied, Synced
<1>4. ASSUME NEW t \in Tasks, RepairSkips(t) PROVE IInv'
  <2>1. bak' \in Copies /\ bakDisk' \in Copies
    BY <1>4 DEF RepairSkips, TypeOK, Copies
  <2>2. TypeOK'
    BY <1>4, <2>1 DEF RepairSkips, TypeOK
  <2> QED
    BY <1>4, <2>2 DEF RepairSkips, Owed, Removed, Copied, Synced
<1>5. ASSUME NEW t \in Tasks, RepairCopies(t) PROVE IInv'
  <2>1. bak' \in Copies /\ bak'[t] = db[t]
    BY <1>5 DEF RepairCopies, TypeOK, Copies
  <2>2. TypeOK'
    BY <1>5, <2>1 DEF RepairCopies, TypeOK, Stages
  <2> QED
    BY <1>5, <2>1, <2>2 DEF RepairCopies, Owed, Removed, Copied, Synced
<1>6. ASSUME NEW t \in Tasks, RepairChanges(t) PROVE IInv'
  <2>1. TypeOK'
    BY <1>6 DEF RepairChanges, TypeOK, Stages
  <2>2. Owed'
    BY <1>6 DEF RepairChanges, Owed, Removed
  <2> QED
    BY <1>6, <2>1, <2>2 DEF RepairChanges, Removed, Copied, Synced
<1>7. CASE RepairsDone
  BY <1>7 DEF RepairsDone, TypeOK, Stages, Owed, Removed, Copied, Synced
<1> QED
  BY <1>1, <1>2, <1>3, <1>4, <1>5, <1>6, <1>7 DEF Repairs

\* So does DSM.
LEMMA DsmIInv == IInv /\ Dsm => IInv'
<1> SUFFICES ASSUME IInv, Dsm PROVE IInv'
  OBVIOUS
<1> USE DEF IInv, Goto, history, queueVars, dsmVars, nextVars
<1>1. ASSUME NEW t \in Tasks, DsmChanges(t) PROVE IInv'
  BY <1>1 DEF DsmChanges, TypeOK, Owed, Removed, Copied, Synced
<1>2. CASE NextBootWrites
  BY <1>2 DEF NextBootWrites, TypeOK, Stages, Owed, Removed, Copied, Synced
<1>3. CASE NextBootSyncs
  <2>1. stage = "writing"
    BY <1>3 DEF NextBootSyncs
  <2> QED
    BY <1>3 DEF NextBootSyncs, TypeOK, Stages, Owed, Removed, Copied, Synced
<1>4. CASE DsmReboots
  BY <1>4 DEF DsmReboots, TypeOK, Stages, Owed, Removed, Copied, Synced
<1> QED
  BY <1>1, <1>2, <1>3, <1>4 DEF Dsm
-----------------------------------------------------------------------------
\* Every step keeps the strengthening.
LEMMA StepIInv == IInv /\ [Next]_vars => IInv'
<1> SUFFICES ASSUME IInv, [Next]_vars PROVE IInv'
  OBVIOUS
<1>1. CASE Next
  BY <1>1, PowerLossIInv, LoaderIInv, RepairsIInv, DsmIInv DEF Next, Machine
<1>2. CASE UNCHANGED vars
  BY <1>2 DEF vars, nextVars, queueVars, dsmVars, history, IInv, TypeOK, Owed, Removed,
              Copied, Synced
<1> QED
  BY <1>1, <1>2

\* The strengthening is an invariant.
LEMMA AlwaysIInv == Spec => []IInv
  BY InitIInv, StepIInv, PTL DEF Spec

\* Type correctness: every variable keeps its type.
THEOREM RequestsTypeCorrect == Spec => []TypeOK
<1>1. IInv => TypeOK
  BY DEF IInv
<1> QED
  BY <1>1, AlwaysIInv, PTL

\* doDSMTasks makes no repair twice for one request, whatever crash falls
\* between taking the queue and the repair.
THEOREM RepairOnceCorrect == Spec => RepairedOnce
<1>1. IInv /\ [Next]_vars => [\A t \in Tasks : Repaired(t) => t \in owed /\ t \notin queueDisk]_vars
  BY DEF IInv, Owed, Removed, Copied, Repaired
<1> QED
  BY <1>1, AlwaysIInv, PTL DEF Spec, RepairedOnce

\* applyDSMTask changes a database only with a whole copy beside it.
THEOREM CopyFirstCorrect == Spec => ChangedWithCopy
<1>1. IInv /\ [Next]_vars => [\A t \in Tasks : Repaired(t) => bak[t] = db[t]]_vars
  BY DEF IInv, Copied, Repaired
<1> QED
  BY <1>1, AlwaysIInv, PTL DEF Spec, ChangedWithCopy

\* What nextBootLoader reported done opens the loader at the next default boot.
THEOREM AckedCorrect == Spec => AckedOpensLoader
<1>1. ASSUME IInv, Next, stage = "off", acked, stage' # "off"
      PROVE  stage' = "loading"
  <2>1. nextDisk = "loader"
    BY <1>1 DEF IInv, Synced
  <2>2. GrubDefault \/ GrubReconfigure
    BY <1>1 DEF Next, Machine, PowerLoss, Loader, StartLoader, DsmFixMenu, LeaveLoader,
                Repairs, TakeNothing, TakeRemoves, TakeSyncs, RepairsDone, RepairSkips,
                RepairCopies, RepairChanges, Dsm, DsmChanges, NextBootWrites, NextBootSyncs,
                DsmReboots
  <2> QED
    BY <2>1, <2>2 DEF GrubDefault, GrubReconfigure, Goto
<1>2. IInv /\ [Next]_vars => [stage = "off" /\ acked /\ stage' # "off" => stage' = "loading"]_vars
  BY <1>1
<1> QED
  BY <1>2, AlwaysIInv, PTL DEF Spec, AckedOpensLoader
-----------------------------------------------------------------------------
\* The file asks for the loader only while a request is pending.
Pending == nextDisk = "loader" \/ next = "loader" => requested

\* The steps that touch the file keep it so.
LEMMA StepPending == Pending /\ [Next]_vars => Pending'
<1> SUFFICES ASSUME Pending, [Next]_vars PROVE Pending'
  OBVIOUS
<1> USE DEF history, queueVars, dsmVars, nextVars, Pending
<1>1. CASE PowerLoss
  BY <1>1, RequestsAssumption DEF PowerLoss, Remains
<1>2. CASE StartLoader
  BY <1>2 DEF StartLoader, Reset
<1>3. CASE NextBootWrites
  BY <1>3 DEF NextBootWrites
<1>4. CASE NextBootSyncs
  BY <1>4 DEF NextBootSyncs
<1>5. CASE UNCHANGED <<nextVars, requested>>
  BY <1>5
<1>6. Next => PowerLoss \/ StartLoader \/ NextBootWrites \/ NextBootSyncs
                \/ UNCHANGED <<nextVars, requested>>
  <2> SUFFICES ASSUME Next, ~PowerLoss, ~StartLoader, ~NextBootWrites, ~NextBootSyncs
               PROVE  UNCHANGED <<nextVars, requested>>
    OBVIOUS
  <2>1. CASE GrubDefault \/ GrubReconfigure
    BY <2>1 DEF GrubDefault, GrubReconfigure
  <2>2. CASE Loader
    BY <2>2 DEF Loader, DsmFixMenu, LeaveLoader
  <2>3. CASE Repairs
    BY <2>3 DEF Repairs, TakeNothing, TakeRemoves, TakeSyncs, RepairSkips, RepairCopies,
                RepairChanges, RepairsDone
  <2>4. CASE Dsm
    BY <2>4 DEF Dsm, DsmChanges, DsmReboots
  <2> QED
    BY <2>1, <2>2, <2>3, <2>4 DEF Next, Machine
<1> QED
  BY <1>1, <1>2, <1>3, <1>4, <1>5, <1>6 DEF vars

\* resetNextBoot makes a request count for one boot, once a loader has partition
\* 1 mounted for writing.
THEOREM CountsOnceCorrect == Spec => NextBootCountsOnce
<1>1. Init => Pending
  BY DEF Init, Pending
<1>2. Pending /\ [Next]_vars => [Countdown => requested]_vars
  BY DEF Pending, Countdown
<1>3. Pending /\ [Next]_vars => Pending'
  BY StepPending
<1> QED
  BY <1>1, <1>2, <1>3, PTL DEF Spec, NextBootCountsOnce
-----------------------------------------------------------------------------
\* Where the queue has been written back, and what the menu said of it.
Kept ==
  /\ stage \notin {"menu", "taken"} => queue = queueDisk
  /\ stage \in {"off", "menu"} /\ mount # "none" => told \subseteq queue

\* Every step keeps that.
LEMMA StepKept == Kept /\ [Next]_vars => Kept'
<1> SUFFICES ASSUME Kept, [Next]_vars PROVE Kept'
  OBVIOUS
<1> USE DEF history, queueVars, dsmVars, nextVars, Kept, Goto
<1>1. CASE PowerLoss
  BY <1>1 DEF PowerLoss, Remains
<1>2. CASE GrubDefault \/ GrubReconfigure
  BY <1>2 DEF GrubDefault, GrubReconfigure
<1>3. CASE Loader
  BY <1>3 DEF Loader, StartLoader, DsmFixMenu, LeaveLoader
<1>4. CASE Repairs
  BY <1>4 DEF Repairs, TakeNothing, TakeRemoves, TakeSyncs, RepairSkips, RepairCopies,
              RepairChanges, RepairsDone
<1>5. CASE Dsm
  BY <1>5 DEF Dsm, DsmChanges, NextBootWrites, NextBootSyncs, DsmReboots
<1>6. CASE UNCHANGED vars
  BY <1>6 DEF vars
<1> QED
  BY <1>1, <1>2, <1>3, <1>4, <1>5, <1>6 DEF Next, Machine

\* What dsmFixMenu reported as queued is on the medium after an orderly exit
\* of a loader that had partition 1 mounted.
THEOREM QueueKeptCorrect == Spec => []QueuedIsKept
<1>1. Init => Kept
  BY DEF Init, Kept
<1>2. Kept /\ [Next]_vars => Kept'
  BY StepKept
<1>3. Kept => QueuedIsKept
  BY DEF Kept, QueuedIsKept
<1> QED
  BY <1>1, <1>2, <1>3, PTL DEF Spec

\* A repair is made once for its request, and after its copy.
THEOREM RepairsHoldCorrect == Spec => RepairsHold
  BY RepairOnceCorrect, CopyFirstCorrect, PTL DEF RepairsHold

\* A request reported done opens the loader, and an answered one does not.
THEOREM RequestsCountCorrect == Spec => RequestsCount
  BY AckedCorrect, CountsOnceCorrect, PTL DEF RequestsCount

(***************************************************************************)
(* HandOver.                                                               *)
(***************************************************************************)

(* The disk's name: what the pivot has written is of this boot.            *)

RuleWritten == pc \in {"hotplug", "dsm", "read", "send", "up"} /\ ~cut => rule \in {disk, NoValue}
DiskWritten == Running /\ hotplug /\ ~cut => dsmDisk = disk
DiskFound == bootDisk \in {disk, NoValue}
DiskInv == RuleWritten /\ DiskWritten /\ DiskFound /\ cut \in BOOLEAN

\* A write that nothing is noted of is done.
LEMMA WriteSound ==
  ASSUME cut \in BOOLEAN, NEW old, NEW new, NEW torn, NEW w \in Write(old, new, torn), Went(w)
  PROVE  cut' \in BOOLEAN /\ (~cut' => ~cut /\ w.ok /\ w.is = new)
<1>1. CASE w = [ok |-> TRUE, is |-> new]
  <2>1. w.ok = TRUE /\ w.is = new
    BY <1>1
  <2> QED
    BY <2>1 DEF Went
<1>2. CASE \E x : w = [ok |-> FALSE, is |-> x]
  <2>1. w.ok = FALSE
    BY <1>2
  <2> QED
    BY <2>1 DEF Went
<1> QED
  BY <1>1, <1>2 DEF Write

LEMMA DiskInvStep == ASSUME DiskInv, [HandOverNext]_handOverVars PROVE DiskInv'
<1> USE DEF DiskInv, RuleWritten, DiskWritten, DiskFound, Running, ram, system
<1>1. CASE PowerOn \/ Drivers \/ Device
  BY <1>1 DEF PowerOn, Drivers, Device
<1>2. CASE WriteAgent
  <2>1. PICK w \in Write(agent, "whole", {"torn"}) :
          Went(w) /\ pc' = IF w.ok THEN "unit" ELSE "dsm"
    BY <1>2 DEF WriteAgent
  <2>2. cut' \in BOOLEAN /\ (~cut' => pc' = "unit")
    BY <2>1, WriteSound
  <2> QED
    BY <1>2, <2>1, <2>2 DEF WriteAgent
<1>3. CASE Enable
  <2>1. PICK w \in Write(unit, TRUE, {FALSE}) :
          Went(w) /\ pc' = IF w.ok THEN "settings" ELSE "dsm"
    BY <1>3 DEF Enable
  <2>2. cut' \in BOOLEAN /\ (~cut' => pc' = "settings")
    BY <2>1, WriteSound
  <2> QED
    BY <1>3, <2>1, <2>2 DEF Enable
<1>4. CASE CopySettings
  <2>1. pc' \in {"queue", "rule"} /\ cut' \in BOOLEAN
    BY <1>4, WriteSound DEF CopySettings
  <2> QED
    BY <1>4, <2>1 DEF CopySettings
<1>5. CASE CopyQueue
  <2>1. cut' \in BOOLEAN /\ pc = "queue" /\ pc' = "rule"
    BY <1>5, WriteSound DEF CopyQueue
  <2> QED
    BY <1>5, <2>1 DEF CopyQueue
<1>6. CASE WriteRule
  <2>1. cut' \in BOOLEAN /\ (~cut' => rule' \in {bootDisk, NoValue})
    BY <1>6, WriteSound DEF WriteRule
  <2> QED
    BY <1>6, <2>1 DEF WriteRule
<1>7. CASE Hotplug
  <2>1. CASE bootDisk = NoValue
    BY <1>7, <2>1 DEF Hotplug
  <2>2. CASE bootDisk # NoValue
    <3>1. PICK w \in Write(dsmDisk, bootDisk, {TornValue}) :
            /\ dsmDisk' = w.is
            /\ IF w.ok THEN \E h \in Write(hotplug, TRUE, {FALSE}) : hotplug' = h.is /\ Went(h)
                       ELSE Went(w) /\ UNCHANGED hotplug
      BY <1>7, <2>2 DEF Hotplug
    <3>2. CASE w.ok
      <4>1. PICK h \in Write(hotplug, TRUE, {FALSE}) : Went(h)
        BY <3>1, <3>2
      <4>2. cut' \in BOOLEAN /\ (~cut' => ~cut)
        BY <4>1, WriteSound
      <4>3. dsmDisk' = bootDisk
        BY <3>1, <3>2 DEF Write
      <4> QED
        BY <1>7, <2>2, <4>2, <4>3 DEF Hotplug
    <3>3. CASE ~w.ok
      <4>1. Went(w)
        BY <3>1, <3>3
      <4>2. cut'
        BY <3>3, <4>1 DEF Went
      <4> QED
        BY <1>7, <4>2 DEF Hotplug
    <3> QED
      BY <3>2, <3>3
  <2> QED
    BY <2>1, <2>2
<1>8. CASE Start \/ TakeQueue \/ Send \/ SendUp \/ AskLoader
  BY <1>8 DEF Start, TakeQueue, Send, SendUp, AskLoader
<1>9. CASE Off \/ Reinstall
  BY <1>9 DEF Off, Reinstall
<1>10. CASE UNCHANGED handOverVars
  BY <1>10 DEF handOverVars
<1> QED
  BY <1>1, <1>2, <1>3, <1>4, <1>5, <1>6, <1>7, <1>8, <1>9, <1>10 DEF HandOverNext

\* bootdisk.go, hotplug_linux.go: unless a write of this boot to the system
\* partition failed, the rule in a running DSM marks the loader's disk of this
\* boot or none, and the agent udev calls reads the pack from it.
THEOREM KnowsLoaderCorrect == HandOverSpec => []KnowsLoader
<1>1. HandOverInit => DiskInv
  BY DEF HandOverInit, DiskInv, RuleWritten, DiskWritten, DiskFound, Running
<1>2. DiskInv /\ [HandOverNext]_handOverVars => DiskInv'
  BY DiskInvStep
<1>3. DiskInv => KnowsLoader
  BY DEF DiskInv, RuleWritten, DiskWritten, KnowsLoader, Running
<1> QED
  BY <1>1, <1>2, <1>3, PTL DEF HandOverSpec
-----------------------------------------------------------------------------
(* The notifications: what has arrived, what is being sent and what is     *)
(* queued are one increasing sequence.                                     *)

Before(e, f) == e.boot < f.boot \/ (e.boot = f.boot /\ Rank(e.name) < Rank(f.name))
Increasing(s) == \A i, j \in DOMAIN s : i < j => Before(s[i], s[j])
AllBefore(s, t) == \A i \in DOMAIN s : \A j \in DOMAIN t : Before(s[i], t[j])

Typed ==
  /\ boot \in 0..MaxBoots /\ (pc # "off" => boot > 0)
  /\ ramQueue \in Seq(Events) /\ dsmQueue \in Seq(Events) /\ toSend \in Seq(Events) /\ sent \in Seq(Events)
Queues ==
  /\ Increasing(ramQueue)
  /\ \A i \in DOMAIN ramQueue : ramQueue[i].boot = boot /\ Rank(ramQueue[i].name) < 4
  /\ pc = "drivers" => \A i \in DOMAIN ramQueue : Rank(ramQueue[i].name) < 2
  /\ pc = "device" => \A i \in DOMAIN ramQueue : Rank(ramQueue[i].name) < 3
Left ==
  /\ Increasing(dsmQueue) /\ AllBefore(sent, dsmQueue)
  /\ \A i \in DOMAIN dsmQueue : dsmQueue[i].boot <= boot /\ Rank(dsmQueue[i].name) < 4
Early == {"drivers", "device", "agent", "unit", "settings", "queue", "rule", "hotplug", "dsm", "read"}
Arrived ==
  /\ Increasing(sent)
  /\ \A i \in DOMAIN sent : sent[i].boot <= boot /\ (pc \in Early => sent[i].boot < boot)
Sending ==
  pc = "send" =>
    /\ dsmQueue = <<>> /\ Increasing(toSend) /\ AllBefore(sent, toSend)
    /\ \A i \in DOMAIN toSend : toSend[i].boot <= boot /\ Rank(toSend[i].name) < 4
    /\ \A i \in DOMAIN sent : sent[i].boot = boot => Rank(sent[i].name) < 4
EventInv == Typed /\ Queues /\ Left /\ Arrived /\ Sending

LEMMA Ranks ==
  /\ Rank("boot_started") = 1 /\ Rank("drivers") = 2 /\ Rank("boot_device") = 3 /\ Rank("dsm_up") = 4
  /\ \A n \in Names : Rank(n) \in 1..4
BY DEF Rank, Names

\* The boot of an event is a number, and so is its rank.
LEMMA BootsNat ==
  ASSUME NEW s \in Seq(Events), NEW i \in DOMAIN s
  PROVE  s[i].boot \in Nat /\ Rank(s[i].name) \in 1..4
<1>1. s[i] \in Events
  OBVIOUS
<1> QED
  BY <1>1, Ranks, HandOverAssumption DEF Events

\* An event behind all the others keeps a sequence increasing.
LEMMA AppendIncreases ==
  ASSUME NEW s \in Seq(Events), NEW e \in Events, Increasing(s),
         \A i \in DOMAIN s : Before(s[i], e)
  PROVE  /\ Append(s, e) \in Seq(Events) /\ Increasing(Append(s, e))
         /\ \A i \in DOMAIN Append(s, e) : Append(s, e)[i] = e \/ \E j \in DOMAIN s : Append(s, e)[i] = s[j]
<1> DEFINE t == Append(s, e)
<1>1. t \in Seq(Events) /\ DOMAIN t = 1..Len(s) + 1 /\ DOMAIN s = 1..Len(s) /\ Len(s) \in Nat
  OBVIOUS
<1>2. t[Len(s) + 1] = e /\ \A i \in 1..Len(s) : t[i] = s[i]
  OBVIOUS
<1>3. Increasing(t)
  BY <1>1, <1>2 DEF Increasing
<1> QED
  BY <1>1, <1>2, <1>3

\* So does leaving out the first.
LEMMA TailIncreases ==
  ASSUME NEW s \in Seq(Events), s # <<>>, Increasing(s)
  PROVE  /\ Tail(s) \in Seq(Events) /\ Increasing(Tail(s)) /\ Head(s) = s[1] /\ 1 \in DOMAIN s
         /\ \A i \in DOMAIN Tail(s) : Tail(s)[i] = s[i + 1] /\ i + 1 \in DOMAIN s /\ i + 1 > 1
<1>1. Tail(s) \in Seq(Events) /\ Len(Tail(s)) = Len(s) - 1 /\ Len(s) \in Nat \ {0} /\ Head(s) = s[1]
  OBVIOUS
<1>2. \A i \in 1..Len(s) - 1 : Tail(s)[i] = s[i + 1]
  OBVIOUS
<1>3. DOMAIN Tail(s) = 1..Len(s) - 1 /\ DOMAIN s = 1..Len(s)
  BY <1>1
<1>4. Increasing(Tail(s))
  BY <1>1, <1>2, <1>3 DEF Increasing
<1> QED
  BY <1>1, <1>2, <1>3, <1>4

\* And cutting it short.
LEMMA PrefixIncreases ==
  ASSUME NEW s \in Seq(Events), NEW n \in 0..Len(s) - 1, Increasing(s)
  PROVE  /\ SubSeq(s, 1, n) \in Seq(Events) /\ Increasing(SubSeq(s, 1, n))
         /\ \A i \in DOMAIN SubSeq(s, 1, n) : SubSeq(s, 1, n)[i] = s[i] /\ i \in DOMAIN s
<1> DEFINE t == SubSeq(s, 1, n)
<1>1. Len(s) \in Nat /\ DOMAIN s = 1..Len(s) /\ n <= Len(s)
  OBVIOUS
<1>2. t = [i \in 1..n |-> s[i]]
  BY <1>1
<1>3. t \in Seq(Events) /\ DOMAIN t = 1..n
  BY <1>1, <1>2
<1>4. \A i \in 1..n : t[i] = s[i] /\ i \in DOMAIN s
  BY <1>1, <1>2
<1>5. Increasing(t)
  BY <1>3, <1>4 DEF Increasing
<1> QED
  BY <1>3, <1>4, <1>5

\* An event of this boot is one.
LEMMA EventTyped == ASSUME Typed, pc # "off", NEW n \in Names PROVE Event(n) \in Events
BY HandOverAssumption DEF Typed, Event, Events

\* Queueing an event behind those there are.
LEMMA QueuedIncreases ==
  ASSUME EventInv, pc # "off", NEW n \in Names,
         \A i \in DOMAIN ramQueue : Rank(ramQueue[i].name) < Rank(n)
  PROVE  /\ Queued(n) \in Seq(Events) /\ Increasing(Queued(n))
         /\ \A i \in DOMAIN Queued(n) :
              Queued(n)[i].boot = boot /\ (Queued(n)[i].name = n \/ Rank(Queued(n)[i].name) < Rank(n))
<1>1. CASE settings = NoValue
  BY <1>1 DEF EventInv, Typed, Queues, Queued
<1>2. CASE settings # NoValue
  <2>1. Event(n) \in Events /\ Event(n).boot = boot /\ Event(n).name = n
    BY EventTyped DEF EventInv, Event
  <2>2. \A i \in DOMAIN ramQueue : Before(ramQueue[i], Event(n))
    BY <2>1 DEF EventInv, Queues, Before
  <2>3. Queued(n) = Append(ramQueue, Event(n))
    BY <1>2 DEF Queued
  <2> QED
    BY <2>1, <2>2, <2>3, AppendIncreases DEF EventInv, Typed, Queues
<1> QED
  BY <1>1, <1>2

\* A step that leaves the events where they are, into a stage no earlier.
LEMMA StillInv ==
  ASSUME EventInv, UNCHANGED <<boot, ramQueue, toSend, sent, dsmQueue>>,
         pc' \notin {"drivers", "device", "send"}, pc' \in Early => pc \in Early,
         pc' # "off" => pc # "off"
  PROVE  EventInv'
BY DEF EventInv, Typed, Queues, Left, Arrived, Sending, Increasing, AllBefore

LEMMA PowerOnInv == ASSUME EventInv, PowerOn PROVE EventInv'
<1> USE DEF EventInv
<1>1. boot \in Nat /\ boot' = boot + 1 /\ boot' \in 1..MaxBoots /\ pc' = "drivers"
  BY HandOverAssumption DEF PowerOn, Typed
<1>2. UNCHANGED <<dsmQueue, sent>> /\ toSend' = <<>>
  BY DEF PowerOn, system
<1> DEFINE e == [boot |-> boot', name |-> "boot_started"]
<1>3. e \in Events
  BY <1>1 DEF Events, Names
<1>4. ramQueue' \in {<<>>, <<e>>}
  BY DEF PowerOn
<1>5. ramQueue' \in Seq(Events) /\ \A i \in DOMAIN ramQueue' : i = 1 /\ ramQueue'[i] = e
  <2>1. CASE ramQueue' = <<>>
    BY <2>1
  <2>2. CASE ramQueue' = <<e>>
    <3>1. DOMAIN ramQueue' = 1..1 /\ ramQueue'[1] = e
      BY <2>2
    <3> QED
      BY <1>3, <2>2, <3>1
  <2> QED
    BY <1>4, <2>1, <2>2
<1>6. Typed'
  BY <1>1, <1>2, <1>5 DEF Typed
<1>7. Queues'
  BY <1>1, <1>5, Ranks DEF Queues, Increasing
<1>8. Left'
  <2>1. \A i \in DOMAIN dsmQueue : dsmQueue[i].boot <= boot'
    BY <1>1, BootsNat DEF Left, Typed
  <2> QED
    BY <1>2, <2>1 DEF Left, Increasing, AllBefore
<1>9. Arrived'
  <2>1. \A i \in DOMAIN sent : sent[i].boot < boot' /\ sent[i].boot <= boot'
    BY <1>1, BootsNat DEF Arrived, Typed
  <2> QED
    BY <1>2, <2>1 DEF Arrived, Increasing
<1>10. Sending'
  BY <1>1 DEF Sending
<1> QED
  BY <1>6, <1>7, <1>8, <1>9, <1>10

LEMMA StageInv == ASSUME EventInv, Drivers \/ Device PROVE EventInv'
<1>1. UNCHANGED <<boot, toSend, sent, dsmQueue>> /\ pc # "off" /\ pc \in Early /\ pc' \in Early /\ pc' # "drivers"
  BY DEF Drivers, Device, system, Early
<1>2. /\ ramQueue' \in Seq(Events) /\ Increasing(ramQueue')
      /\ \A i \in DOMAIN ramQueue' : ramQueue'[i].boot = boot /\ Rank(ramQueue'[i].name) < 4
      /\ pc' = "device" => \A i \in DOMAIN ramQueue' : Rank(ramQueue'[i].name) < 3
  <2>1. CASE ramQueue' = ramQueue
    <3>1. \A i \in DOMAIN ramQueue : Rank(ramQueue[i].name) < 2 => Rank(ramQueue[i].name) < 3
      BY BootsNat DEF EventInv, Typed
    <3> QED
      BY <2>1, <3>1 DEF EventInv, Typed, Queues, Drivers, Device
  <2>2. CASE Drivers /\ ramQueue' = Queued("drivers")
    <3>1. pc # "off" /\ "drivers" \in Names /\ \A i \in DOMAIN ramQueue : Rank(ramQueue[i].name) < Rank("drivers")
      BY <2>2, Ranks DEF EventInv, Queues, Drivers, Names
    <3>2. /\ Queued("drivers") \in Seq(Events) /\ Increasing(Queued("drivers"))
          /\ \A i \in DOMAIN Queued("drivers") :
               /\ Queued("drivers")[i].boot = boot
               /\ Queued("drivers")[i].name = "drivers" \/ Rank(Queued("drivers")[i].name) < Rank("drivers")
      BY <3>1, QueuedIncreases
    <3> QED
      BY <2>2, <3>2, Ranks, BootsNat DEF Drivers
  <2>3. CASE Device /\ ramQueue' = Queued("boot_device")
    <3>1. pc # "off" /\ "boot_device" \in Names /\ \A i \in DOMAIN ramQueue : Rank(ramQueue[i].name) < Rank("boot_device")
      BY <2>3, Ranks DEF EventInv, Queues, Device, Names
    <3>2. /\ Queued("boot_device") \in Seq(Events) /\ Increasing(Queued("boot_device"))
          /\ \A i \in DOMAIN Queued("boot_device") :
               /\ Queued("boot_device")[i].boot = boot
               /\ Queued("boot_device")[i].name = "boot_device" \/ Rank(Queued("boot_device")[i].name) < Rank("boot_device")
      BY <3>1, QueuedIncreases
    <3> QED
      BY <2>3, <3>2, Ranks, BootsNat DEF Device
  <2> QED
    BY <2>1, <2>2, <2>3 DEF Drivers, Device
<1>3. Typed' /\ Queues'
  BY <1>1, <1>2 DEF EventInv, Typed, Queues
<1>4. Left' /\ Arrived' /\ Sending'
  BY <1>1 DEF EventInv, Left, Arrived, Sending, AllBefore, Increasing, Early
<1> QED
  BY <1>3, <1>4 DEF EventInv

LEMMA CopyQueueInv == ASSUME EventInv, CopyQueue PROVE EventInv'
<1> USE DEF EventInv
<1>1. UNCHANGED <<boot, ramQueue, toSend, sent>> /\ pc = "queue" /\ pc' = "rule"
  BY DEF CopyQueue, ram
<1>2. Typed /\ Increasing(ramQueue)
  BY DEF Queues
<1>3. \/ dsmQueue' = dsmQueue
      \/ /\ dsmQueue' \in Seq(Events) /\ Increasing(dsmQueue')
         /\ \A i \in DOMAIN dsmQueue' : i \in DOMAIN ramQueue /\ dsmQueue'[i] = ramQueue[i]
  <2>1. CASE ramQueue = <<>>
    BY <2>1 DEF CopyQueue, Increasing
  <2>2. CASE ramQueue # <<>>
    <3>1. PICK w \in Write(dsmQueue, ramQueue, {SubSeq(ramQueue, 1, n) : n \in 0..Len(ramQueue) - 1}) : dsmQueue' = w.is
      BY <2>2 DEF CopyQueue
    <3>2. w.is = ramQueue \/ w.is = dsmQueue \/ \E n \in 0..Len(ramQueue) - 1 : w.is = SubSeq(ramQueue, 1, n)
      BY <3>1 DEF Write
    <3> QED
      BY <1>2, <3>1, <3>2, PrefixIncreases DEF Typed
  <2> QED
    BY <2>1, <2>2
<1>4. Typed'
  BY <1>1, <1>3 DEF Typed
<1>5. Queues' /\ Arrived' /\ Sending'
  BY <1>1 DEF Queues, Arrived, Sending, Increasing, Early
<1>6. Left'
  <2>1. CASE dsmQueue' = dsmQueue
    BY <1>1, <2>1 DEF Left, Increasing, AllBefore
  <2>2. CASE dsmQueue' # dsmQueue
    <3>1. \A i \in DOMAIN sent : sent[i].boot < boot
      BY <1>1 DEF Arrived, Early
    <3>2. AllBefore(sent, dsmQueue')
      BY <1>3, <2>2, <3>1 DEF AllBefore, Before, Queues
    <3> QED
      BY <1>1, <1>3, <2>2, <3>2 DEF Left, Queues, Typed, AllBefore
  <2> QED
    BY <2>1, <2>2
<1> QED
  BY <1>4, <1>5, <1>6

LEMMA TakeQueueInv == ASSUME EventInv, TakeQueue PROVE EventInv'
<1> USE DEF EventInv
<1>1. /\ UNCHANGED <<boot, ramQueue, sent>> /\ pc = "read" /\ pc' = "send"
      /\ dsmQueue' = <<>> /\ toSend' \in {dsmQueue, <<>>}
  BY DEF TakeQueue, ram
<1>2. Typed' /\ Queues' /\ Left' /\ Arrived'
  <2>1. dsmQueue' \in Seq(Events) /\ toSend' \in Seq(Events) /\ DOMAIN dsmQueue' = {}
    <3>1. <<>> \in Seq(Events) /\ DOMAIN <<>> = {}
      OBVIOUS
    <3>2. dsmQueue \in Seq(Events)
      BY DEF Typed
    <3>3. DOMAIN dsmQueue' = {}
      BY <1>1, <3>1, Zenon
    <3>4. dsmQueue' \in Seq(Events)
      BY <1>1, <3>1, Zenon
    <3>5. toSend' \in Seq(Events)
      BY <1>1, <3>1, <3>2, Zenon
    <3> QED
      BY <3>3, <3>4, <3>5
  <2> QED
    BY <1>1, <2>1 DEF Typed, Queues, Left, Arrived, Increasing, AllBefore, Early
<1>3. \A i \in DOMAIN sent : sent[i].boot < boot /\ sent[i].boot \in Nat
  BY <1>1, BootsNat DEF Arrived, Early, Typed
<1>4. \A i \in DOMAIN sent' : sent'[i].boot # boot'
  BY <1>1, <1>3 DEF Typed
<1>5. /\ Increasing(toSend') /\ AllBefore(sent', toSend')
      /\ \A i \in DOMAIN toSend' : toSend'[i].boot <= boot' /\ Rank(toSend'[i].name) < 4
  <2>1. CASE toSend' = dsmQueue
    BY <1>1, <2>1 DEF Left
  <2>2. CASE toSend' = <<>>
    BY <2>2 DEF Increasing, AllBefore
  <2> QED
    BY <1>1, <2>1, <2>2
<1>6. Sending'
  BY <1>1, <1>4, <1>5 DEF Sending
<1> QED
  BY <1>2, <1>6

LEMMA SendInv == ASSUME EventInv, Send PROVE EventInv'
<1> USE DEF EventInv
<1>1. /\ UNCHANGED <<boot, ramQueue, dsmQueue, pc>> /\ pc = "send" /\ dsmQueue = <<>>
      /\ toSend # <<>> /\ toSend' = Tail(toSend) /\ sent' \in {sent, Append(sent, Head(toSend))}
  BY DEF Send, ram, system, Sending
<1> DEFINE e == Head(toSend)
<1>2. Typed /\ Increasing(toSend) /\ AllBefore(sent, toSend)
  BY <1>1 DEF Sending
<1>3. /\ toSend' \in Seq(Events) /\ Increasing(toSend') /\ e = toSend[1] /\ 1 \in DOMAIN toSend
      /\ \A i \in DOMAIN toSend' : toSend'[i] = toSend[i + 1] /\ i + 1 \in DOMAIN toSend /\ i + 1 > 1
  BY <1>1, <1>2, TailIncreases DEF Typed
<1>4. e \in Events /\ e.boot <= boot /\ Rank(e.name) < 4 /\ \A i \in DOMAIN sent : Before(sent[i], e)
  BY <1>1, <1>2, <1>3 DEF Typed, Sending, AllBefore
<1>5. \A i \in DOMAIN toSend' : Before(e, toSend'[i])
  BY <1>2, <1>3 DEF Increasing
<1>6. /\ sent' \in Seq(Events) /\ Increasing(sent')
      /\ \A i \in DOMAIN sent' : sent'[i] = e \/ \E j \in DOMAIN sent : sent'[i] = sent[j]
  <2>1. CASE sent' = sent
    BY <2>1 DEF Typed, Arrived
  <2>2. CASE sent' = Append(sent, e)
    BY <1>2, <1>4, <2>2, AppendIncreases DEF Typed, Arrived
  <2> QED
    BY <1>1, <2>1, <2>2
<1>7. Typed' /\ Queues'
  BY <1>1, <1>3, <1>6 DEF Typed, Queues, Increasing
<1>8. Left' /\ Arrived'
  BY <1>1, <1>4, <1>6 DEF Left, Arrived, AllBefore, Increasing, Early
<1>9. AllBefore(sent', toSend')
  BY <1>2, <1>3, <1>5, <1>6 DEF AllBefore
<1>10. Sending'
  BY <1>1, <1>3, <1>4, <1>6, <1>9 DEF Sending, AllBefore, Increasing
<1> QED
  BY <1>7, <1>8, <1>10

LEMMA SendUpInv == ASSUME EventInv, SendUp PROVE EventInv'
<1> USE DEF EventInv
<1> DEFINE e == Event("dsm_up")
<1>1. /\ UNCHANGED <<boot, ramQueue, dsmQueue, toSend>> /\ pc = "send" /\ pc' = "up" /\ dsmQueue = <<>>
      /\ sent' \in {sent, Append(sent, e)}
  BY DEF SendUp, ram, system, Sending
<1>2. e \in Events /\ e.boot = boot /\ e.name = "dsm_up"
  BY <1>1, EventTyped DEF Event, Names
<1>3. \A i \in DOMAIN sent : Before(sent[i], e)
  BY <1>1, <1>2, Ranks, BootsNat DEF Before, Sending, Arrived, Typed
<1>4. /\ sent' \in Seq(Events) /\ Increasing(sent')
      /\ \A i \in DOMAIN sent' : sent'[i] = e \/ \E j \in DOMAIN sent : sent'[i] = sent[j]
  <2>1. CASE sent' = sent
    BY <2>1 DEF Typed, Arrived
  <2>2. CASE sent' = Append(sent, e)
    BY <1>2, <1>3, <2>2, AppendIncreases DEF Typed, Arrived
  <2> QED
    BY <1>1, <2>1, <2>2
<1>5. Typed' /\ Queues' /\ Sending'
  BY <1>1, <1>4 DEF Typed, Queues, Sending, Increasing
<1>6. Left' /\ Arrived'
  BY <1>1, <1>2, <1>4 DEF Left, Arrived, AllBefore, Increasing, Early, Typed
<1> QED
  BY <1>5, <1>6

LEMMA EventInvStep == ASSUME EventInv, [HandOverNext]_handOverVars PROVE EventInv'
<1> USE DEF Early, ram, system
<1>1. CASE WriteAgent \/ Enable \/ CopySettings \/ WriteRule \/ Hotplug
  <2>1. /\ UNCHANGED <<boot, ramQueue, toSend, sent, dsmQueue>> /\ pc # "off" /\ pc \in Early
        /\ pc' \notin {"drivers", "device", "send"}
    BY <1>1 DEF WriteAgent, Enable, CopySettings, WriteRule, Hotplug
  <2> QED
    BY <2>1, StillInv
<1>2. CASE Start \/ AskLoader \/ Off
  <2>1. /\ UNCHANGED <<boot, ramQueue, toSend, sent, dsmQueue>> /\ pc' \notin {"drivers", "device", "send"}
        /\ (pc' \in Early => pc \in Early) /\ (pc' # "off" => pc # "off")
    BY <1>2 DEF Start, AskLoader, Off
  <2> QED
    BY <2>1, StillInv
<1>3. CASE Reinstall
  BY <1>3 DEF Reinstall, EventInv, Typed, Queues, Left, Arrived, Sending, Increasing, AllBefore
<1>4. CASE UNCHANGED handOverVars
  BY <1>4 DEF handOverVars, EventInv, Typed, Queues, Left, Arrived, Sending, Increasing, AllBefore
<1> QED
  BY <1>1, <1>2, <1>3, <1>4, PowerOnInv, StageInv, CopyQueueInv, TakeQueueInv, SendInv, SendUpInv DEF HandOverNext

LEMMA EventInvAlways == HandOverSpec => []EventInv
<1>1. HandOverInit => EventInv
  BY HandOverAssumption DEF HandOverInit, EventInv, Typed, Queues, Left, Arrived, Sending, Increasing, AllBefore
<1>2. EventInv /\ [HandOverNext]_handOverVars => EventInv'
  BY EventInvStep
<1> QED
  BY <1>1, <1>2, PTL DEF HandOverSpec

\* notify.go: the events arrive in the order they happened, dsm_up last, and
\* none twice.
THEOREM SentOnceInOrderCorrect == HandOverSpec => []SentOnceInOrder
<1>1. EventInv => SentOnceInOrder
  BY DEF EventInv, Arrived, Increasing, Before, SentOnceInOrder
<1> QED
  BY <1>1, EventInvAlways, PTL
-----------------------------------------------------------------------------
(* The types.                                                              *)

DiskTyped ==
  /\ disk \in Disks /\ bootDisk \in Disks \cup {NoValue}
  /\ rule \in Disks \cup {NoValue} /\ dsmDisk \in Disks \cup {NoValue, TornValue}
  /\ hotplug \in BOOLEAN /\ asked \in Disks \cup {NoValue}
RestTyped ==
  /\ pc \in {"off", "drivers", "device", "agent", "unit", "settings", "queue", "rule", "hotplug",
             "dsm", "read", "send", "up"}
  /\ settings \in Settings \cup {NoValue} /\ dsmSettings \in Settings \cup {NoValue, TornValue}
  /\ agent \in {"none", "torn", "whole"} /\ unit \in BOOLEAN
  /\ cut \in BOOLEAN

\* What a write may leave, and that it notes whether it failed.
LEMMA WriteTyped ==
  ASSUME cut \in BOOLEAN, NEW old, NEW new, NEW torn, NEW w \in Write(old, new, torn)
  PROVE  /\ w.is = new \/ w.is = old \/ w.is \in torn
         /\ w.ok \in BOOLEAN /\ (Went(w) => cut' \in BOOLEAN)
<1>1. CASE w = [ok |-> TRUE, is |-> new]
  BY <1>1 DEF Went
<1>2. CASE \E x \in {old} \cup torn : w = [ok |-> FALSE, is |-> x]
  <2>1. w.ok = FALSE /\ (w.is = old \/ w.is \in torn)
    BY <1>2
  <2> QED
    BY <2>1 DEF Went
<1> QED
  BY <1>1, <1>2 DEF Write

\* The same of a flag.
LEMMA FlagTyped ==
  ASSUME NEW old \in BOOLEAN, NEW w \in Write(old, TRUE, {FALSE})
  PROVE  w.is \in BOOLEAN
<1>1. CASE w = [ok |-> TRUE, is |-> TRUE]
  <2>1. w.is = TRUE
    BY <1>1
  <2> QED
    BY <2>1
<1>2. ASSUME NEW x \in {old, FALSE}, w = [ok |-> FALSE, is |-> x] PROVE w.is \in BOOLEAN
  <2>1. w.is = x
    BY <1>2
  <2>2. x \in BOOLEAN
    BY <1>2, Zenon
  <2> QED
    BY <2>1, <2>2, Zenon
<1>3. {old} \cup {FALSE} = {old, FALSE}
  BY Zenon
<1> QED
  BY <1>1, <1>2, <1>3 DEF Write

LEMMA DiskTypedStep == ASSUME DiskTyped, RestTyped, [HandOverNext]_handOverVars PROVE DiskTyped'
<1> USE DEF DiskTyped, ram, system
<1>1. CASE PowerOn \/ Drivers \/ Device
  BY <1>1 DEF PowerOn, Drivers, Device
<1>2. CASE WriteAgent \/ Enable \/ CopySettings \/ CopyQueue
  BY <1>2 DEF WriteAgent, Enable, CopySettings, CopyQueue
<1>3. CASE WriteRule
  BY <1>3, WriteTyped DEF WriteRule, RestTyped
<1>4. CASE Hotplug
  <2>1. UNCHANGED <<disk, bootDisk, rule, asked>>
    BY <1>4 DEF Hotplug
  <2>2. CASE bootDisk = NoValue
    BY <1>4, <2>1, <2>2 DEF Hotplug
  <2>3. CASE bootDisk # NoValue
    <3>1. PICK w \in Write(dsmDisk, bootDisk, {TornValue}) :
            /\ dsmDisk' = w.is
            /\ IF w.ok THEN \E h \in Write(hotplug, TRUE, {FALSE}) : hotplug' = h.is /\ Went(h)
                       ELSE Went(w) /\ UNCHANGED hotplug
      BY <1>4, <2>3 DEF Hotplug
    <3>2. dsmDisk' \in Disks \cup {NoValue, TornValue}
      BY <3>1, WriteTyped DEF RestTyped
    <3>3. hotplug' \in BOOLEAN
      <4>1. CASE hotplug' = hotplug
        BY <4>1
      <4>2. CASE \E h \in Write(hotplug, TRUE, {FALSE}) : hotplug' = h.is
        BY <4>2, FlagTyped
      <4> QED
        BY <3>1, <4>1, <4>2
    <3> QED
      BY <2>1, <3>2, <3>3
  <2> QED
    BY <2>2, <2>3
<1>5. CASE Start \/ TakeQueue \/ Send \/ SendUp \/ AskLoader \/ Off \/ Reinstall
  BY <1>5 DEF Start, TakeQueue, Send, SendUp, AskLoader, Off, Reinstall
<1>6. CASE UNCHANGED handOverVars
  BY <1>6 DEF handOverVars
<1> QED
  BY <1>1, <1>2, <1>3, <1>4, <1>5, <1>6 DEF HandOverNext

LEMMA RestTypedStep == ASSUME RestTyped, [HandOverNext]_handOverVars PROVE RestTyped'
<1> USE DEF RestTyped, ram, system
<1>1. CASE PowerOn \/ Drivers \/ Device
  BY <1>1 DEF PowerOn, Drivers, Device
<1>2. CASE WriteAgent
  BY <1>2, WriteTyped DEF WriteAgent
<1>3. CASE Enable
  <2>1. PICK w \in Write(unit, TRUE, {FALSE}) :
          unit' = w.is /\ Went(w) /\ pc' = IF w.ok THEN "settings" ELSE "dsm"
    BY <1>3 DEF Enable
  <2>2. unit' \in BOOLEAN
    BY <2>1, FlagTyped
  <2>3. cut' \in BOOLEAN
    BY <2>1, WriteTyped
  <2>4. pc' \in {"settings", "dsm"} /\ UNCHANGED <<settings, dsmSettings, agent>>
    BY <1>3, <2>1 DEF Enable
  <2> QED
    BY <2>2, <2>3, <2>4
<1>4. CASE CopySettings
  BY <1>4, WriteTyped DEF CopySettings
<1>5. CASE CopyQueue
  BY <1>5, WriteTyped DEF CopyQueue
<1>6. CASE WriteRule
  BY <1>6, WriteTyped DEF WriteRule
<1>7. CASE Hotplug
  BY <1>7, WriteTyped DEF Hotplug
<1>8. CASE Start \/ TakeQueue \/ Send \/ SendUp \/ AskLoader \/ Off \/ Reinstall
  BY <1>8 DEF Start, TakeQueue, Send, SendUp, AskLoader, Off, Reinstall
<1>9. CASE UNCHANGED handOverVars
  BY <1>9 DEF handOverVars
<1> QED
  BY <1>1, <1>2, <1>3, <1>4, <1>5, <1>6, <1>7, <1>8, <1>9 DEF HandOverNext

\* Every variable keeps its type, whatever a failed write leaves behind.
THEOREM HandOverTypeCorrect == HandOverSpec => []HandOverTypeOK
<1>1. HandOverInit => DiskTyped /\ RestTyped
  BY DEF HandOverInit, DiskTyped, RestTyped
<1>2. DiskTyped /\ RestTyped /\ [HandOverNext]_handOverVars => DiskTyped' /\ RestTyped'
  BY DiskTypedStep, RestTypedStep
<1>3. DiskTyped /\ RestTyped /\ EventInv => HandOverTypeOK
  BY DEF DiskTyped, RestTyped, EventInv, Typed, HandOverTypeOK
<1> QED
  BY <1>1, <1>2, <1>3, EventInvAlways, PTL DEF HandOverSpec
-----------------------------------------------------------------------------
(* Of this boot: where no write failed, what the agent finds is what this  *)
(* boot's ramdisk stage left.                                              *)

OfBoot(s) == \A i \in DOMAIN s : s[i].boot = boot
CopiedWhole == {"rule", "hotplug", "dsm", "read"}
ToldInv ==
  /\ ~cut /\ pc \in CopiedWhole \cup {"queue", "send"} => dsmSettings = settings
  /\ ~cut /\ pc \in CopiedWhole => OfBoot(dsmQueue)
  /\ ~cut /\ pc = "send" => OfBoot(toSend) /\ (toSend # <<>> => dsmSettings \in Settings)
Told == ToldInv /\ RestTyped /\ EventInv

LEMMA ToldStep == ASSUME Told, [HandOverNext]_handOverVars PROVE ToldInv'
<1> USE DEF Told, ToldInv, CopiedWhole, OfBoot, ram, system
<1>0. cut \in BOOLEAN
  BY DEF RestTyped
<1>1. CASE PowerOn \/ Drivers \/ Device
  BY <1>1 DEF PowerOn, Drivers, Device
<1>2. CASE WriteAgent
  <2>1. PICK w \in Write(agent, "whole", {"torn"}) :
          Went(w) /\ pc' = IF w.ok THEN "unit" ELSE "dsm"
    BY <1>2 DEF WriteAgent
  <2>2. ~cut' => pc' = "unit"
    BY <1>0, <2>1, WriteSound
  <2> QED
    BY <1>2, <2>1, <2>2 DEF WriteAgent
<1>3. CASE Enable
  <2>1. PICK w \in Write(unit, TRUE, {FALSE}) :
          Went(w) /\ pc' = IF w.ok THEN "settings" ELSE "dsm"
    BY <1>3 DEF Enable
  <2>2. ~cut' => pc' = "settings"
    BY <1>0, <2>1, WriteSound
  <2> QED
    BY <1>3, <2>1, <2>2 DEF Enable
<1>4. CASE CopySettings
  <2>1. pc' \in {"queue", "rule"} /\ settings' = settings
    BY <1>4 DEF CopySettings
  <2>2. ~cut' => dsmSettings' = settings /\ pc' = "queue"
    <3>1. CASE settings = NoValue
      BY <1>4, <3>1 DEF CopySettings
    <3>2. CASE settings # NoValue
      <4>1. PICK w \in Write(dsmSettings, settings, {TornValue}) :
              dsmSettings' = w.is /\ Went(w) /\ pc' \in IF w.ok THEN {"queue"} ELSE {"queue", "rule"}
        BY <1>4, <3>2 DEF CopySettings
      <4> QED
        BY <1>0, <4>1, WriteSound
    <3> QED
      BY <3>1, <3>2
  <2> QED
    BY <2>1, <2>2
<1>5. CASE CopyQueue
  <2>1. pc = "queue" /\ pc' = "rule" /\ UNCHANGED <<boot, settings, dsmSettings, ramQueue>>
    BY <1>5 DEF CopyQueue
  <2>2. ~cut' => ~cut /\ dsmQueue' = ramQueue
    <3>1. CASE ramQueue = <<>>
      BY <1>5, <3>1 DEF CopyQueue
    <3>2. CASE ramQueue # <<>>
      <4>1. PICK w \in Write(dsmQueue, ramQueue, {SubSeq(ramQueue, 1, n) : n \in 0..Len(ramQueue) - 1}) :
              dsmQueue' = w.is /\ Went(w)
        BY <1>5, <3>2 DEF CopyQueue
      <4> QED
        BY <1>0, <4>1, WriteSound
    <3> QED
      BY <3>1, <3>2
  <2>3. \A i \in DOMAIN ramQueue : ramQueue[i].boot = boot
    BY DEF EventInv, Queues
  <2> QED
    BY <2>1, <2>2, <2>3
<1>6. CASE WriteRule
  <2>1. ~cut' => ~cut
    BY <1>0, <1>6, WriteSound DEF WriteRule
  <2> QED
    BY <1>6, <2>1 DEF WriteRule
<1>7. CASE Hotplug
  <2>1. ~cut' => ~cut
    <3>1. CASE bootDisk = NoValue
      BY <1>7, <3>1 DEF Hotplug
    <3>2. CASE bootDisk # NoValue
      <4>1. \/ \E w \in Write(dsmDisk, bootDisk, {TornValue}) : Went(w)
            \/ \E h \in Write(hotplug, TRUE, {FALSE}) : Went(h)
        BY <1>7, <3>2 DEF Hotplug
      <4> QED
        BY <1>0, <4>1, WriteSound
    <3> QED
      BY <3>1, <3>2
  <2> QED
    BY <1>7, <2>1 DEF Hotplug
<1>8. CASE Start
  BY <1>8 DEF Start
<1>9. CASE TakeQueue
  <2>1. pc = "read" /\ pc' = "send" /\ UNCHANGED <<boot, cut, settings, dsmSettings>>
    BY <1>9 DEF TakeQueue
  <2>2. CASE dsmSettings \in Settings
    BY <1>9, <2>1, <2>2 DEF TakeQueue
  <2>3. CASE dsmSettings \notin Settings
    BY <1>9, <2>1, <2>3 DEF TakeQueue
  <2> QED
    BY <2>2, <2>3
<1>10. CASE Send
  <2>1. /\ pc = "send" /\ toSend # <<>> /\ toSend' = Tail(toSend) /\ toSend \in Seq(Events)
        /\ UNCHANGED <<pc, boot, cut, settings, dsmSettings>>
    BY <1>10 DEF Send, EventInv, Typed
  <2>2. Increasing(toSend)
    BY <2>1 DEF EventInv, Sending
  <2>3. \A i \in DOMAIN toSend' : toSend'[i] = toSend[i + 1] /\ i + 1 \in DOMAIN toSend
    BY <2>1, <2>2, TailIncreases
  <2> QED
    BY <2>1, <2>3
<1>11. CASE SendUp \/ AskLoader \/ Off
  BY <1>11 DEF SendUp, AskLoader, Off
<1>12. CASE Reinstall
  BY <1>12 DEF Reinstall
<1>13. CASE UNCHANGED handOverVars
  BY <1>13 DEF handOverVars
<1> QED
  BY <1>1, <1>2, <1>3, <1>4, <1>5, <1>6, <1>7, <1>8, <1>9, <1>10, <1>11, <1>12, <1>13 DEF HandOverNext

\* What a step adds to what has arrived is of this boot.
LEMMA SentOfThisBoot ==
  ASSUME Told, ~cut, HandOverNext, NEW i \in DOMAIN sent' \ DOMAIN sent
  PROVE  sent'[i].boot = boot /\ settings # NoValue
<1> USE DEF Told
<1>1. sent \in Seq(Events) /\ toSend \in Seq(Events)
  BY DEF EventInv, Typed
<1>2. CASE Send /\ sent' = Append(sent, Head(toSend))
  <2>1. pc = "send" /\ toSend # <<>>
    BY <1>2 DEF Send
  <2>2. Head(toSend) = toSend[1] /\ 1 \in DOMAIN toSend
    BY <1>1, <2>1
  <2>3. Head(toSend).boot = boot /\ settings \in Settings
    BY <2>1, <2>2 DEF ToldInv, OfBoot
  <2>4. sent'[i] = Head(toSend)
    BY <1>1, <1>2
  <2> QED
    BY <2>3, <2>4, HandOverAssumption
<1>3. CASE SendUp /\ sent' = Append(sent, Event("dsm_up"))
  <2>1. pc = "send" /\ sent' # sent
    BY <1>3 DEF SendUp
  <2>2. dsmSettings \in Settings
    BY <1>3, <2>1 DEF SendUp
  <2>3. settings \in Settings
    BY <2>1, <2>2 DEF ToldInv
  <2>4. sent'[i] = Event("dsm_up")
    BY <1>1, <1>3
  <2> QED
    BY <2>3, <2>4, HandOverAssumption DEF Event
<1>4. CASE sent' = sent
  BY <1>4
<1>5. sent' = sent \/ Send \/ SendUp
  BY DEF HandOverNext, PowerOn, Drivers, Device, WriteAgent, Enable, CopySettings, CopyQueue,
         WriteRule, Hotplug, Start, TakeQueue, AskLoader, Off, Reinstall
<1> QED
  BY <1>2, <1>3, <1>4, <1>5 DEF Send, SendUp

\* notify.go: of what happened in the boots, a receiver learns each event at
\* most once, in its order, and in its own boot, whatever is lost or cut off.
THEOREM EventsToldCorrect == HandOverSpec => EventsTold
<1>1. HandOverInit => ToldInv /\ RestTyped
  BY DEF HandOverInit, ToldInv, CopiedWhole, RestTyped
<1>2. Told /\ [HandOverNext]_handOverVars => ToldInv' /\ RestTyped'
  BY ToldStep, RestTypedStep DEF Told
<1>3. Told /\ [HandOverNext]_handOverVars =>
        [~cut => \A i \in DOMAIN sent' \ DOMAIN sent : sent'[i].boot = boot /\ settings # NoValue]_handOverVars
  BY SentOfThisBoot
<1>4. Told <=> ToldInv /\ RestTyped /\ EventInv
  BY DEF Told
<1>5. HandOverSpec => []Told
  BY <1>1, <1>2, <1>4, EventInvAlways, PTL DEF HandOverSpec
<1>6. HandOverSpec => EventsOfThisBoot
  BY <1>3, <1>5, PTL DEF HandOverSpec, EventsOfThisBoot
<1> QED
  BY <1>6, SentOnceInOrderCorrect, PTL DEF EventsTold

(***************************************************************************)
(* BootNodes.                                                              *)
(***************************************************************************)

Bus ==
  /\ bus \in [DiskNames -> Others \cup {LoaderDisk, Absent}] /\ shown \in [DiskNames -> Nat]
  /\ \A m, n \in DiskNames : bus[m] = LoaderDisk /\ bus[n] = LoaderDisk => m = n
Nodes == nodes = [p \in 0 .. 4 |-> nodes[p]]
Call ==
  create # Absent =>
    /\ create = [at |-> create.at, names |-> create.names, name |-> create.name, todo |-> create.todo]
    /\ create.names \subseteq DiskNames /\ create.todo \subseteq Nat \ {0}
    /\ create.at # "look" => create.name \in DiskNames
History ==
  /\ still = [call |-> still.call, boot |-> still.boot, all |-> still.all]
  /\ still.boot => still.call

\* The disk that a call took for the loader's is it, unless one has left.
Taken == create # Absent /\ create.at # "look" /\ still.call => bus[create.name] = LoaderDisk

\* A node is the loader's own, unless a disk has left since the first.
Own(p) == nodes[p] # Absent => nodes[p].part = p /\ nodes[p].name \in DiskNames /\ bus[nodes[p].name] = LoaderDisk
AllOwn == still.boot => \A p \in 0 .. 4 : Own(p)

\* What a call has made so far.
Made(p) == nodes[p] = [name |-> create.name, part |-> p]
DiskMade == create # Absent /\ create.at \in {"parts", "nodes"} => Made(0)
PartsMade ==
  create # Absent /\ create.at = "nodes" /\ still.call /\ still.all =>
    \A p \in 1 .. 3 : p \in create.todo \/ Made(p)

NodesInv == Bus /\ Nodes /\ Call /\ History /\ Taken /\ AllOwn /\ DiskMade /\ PartsMade

\* The kernel's steps.
LEMMA AppearInv == ASSUME NodesInv, NEW d \in Others \cup {LoaderDisk}, Appear(d) PROVE NodesInv'
<1> USE DEF NodesInv
<1>1. PICK n \in DiskNames : bus[n] = Absent /\ bus' = [bus EXCEPT ![n] = d] /\ shown' = [shown EXCEPT ![n] = 0]
  BY DEF Appear
<1>2. UNCHANGED <<mark, nodes, create, call, problems, left, still>> /\ \A m \in DiskNames : bus[m] # d
  BY DEF Appear
<1>3. \A m \in DiskNames : bus'[m] = IF m = n THEN d ELSE bus[m]
  BY <1>1 DEF Bus
<1>4. Absent # LoaderDisk
  BY BootNodesAssumption
<1>5. Bus'
  BY <1>1, <1>2, <1>3 DEF Bus
<1>6. \A m \in DiskNames : bus[m] = LoaderDisk => bus'[m] = LoaderDisk
  BY <1>1, <1>3, <1>4
<1>7. Nodes' /\ Call' /\ History' /\ DiskMade' /\ PartsMade'
  BY <1>2 DEF Nodes, Call, History, DiskMade, PartsMade, Made
<1>8. Taken' /\ AllOwn'
  BY <1>2, <1>6 DEF Call, Taken, AllOwn, Own
<1> QED
  BY <1>5, <1>7, <1>8

LEMMA RegisterInv == ASSUME NodesInv, NEW n \in DiskNames, Register(n) PROVE NodesInv'
<1> USE DEF NodesInv
<1>1. UNCHANGED <<bus, mark, nodes, create, call, problems, left, still>> /\ shown' = [shown EXCEPT ![n] = @ + 1]
  BY DEF Register
<1>2. Bus'
  BY <1>1 DEF Bus
<1> QED
  BY <1>1, <1>2 DEF Nodes, Call, History, Taken, AllOwn, Own, DiskMade, PartsMade, Made

LEMMA LeaveInv == ASSUME NodesInv, NEW n \in DiskNames, Leave(n) PROVE NodesInv'
<1> USE DEF NodesInv
<1>1. /\ UNCHANGED <<mark, nodes, create, call, problems>>
      /\ bus' = [bus EXCEPT ![n] = Absent] /\ shown' = [shown EXCEPT ![n] = 0]
      /\ still' = [still EXCEPT !.call = FALSE, !.boot = FALSE]
  BY DEF Leave
<1>2. still' = [call |-> FALSE, boot |-> FALSE, all |-> still.all]
  BY <1>1 DEF History
<1>3. Bus'
  BY <1>1, BootNodesAssumption DEF Bus
<1>4. Nodes' /\ Call' /\ DiskMade'
  BY <1>1 DEF Nodes, Call, DiskMade, Made
<1>5. History' /\ Taken' /\ AllOwn' /\ PartsMade'
  BY <1>2 DEF History, Taken, AllOwn, PartsMade
<1> QED
  BY <1>3, <1>4, <1>5

\* The steps of a call that make no node.
LEMMA ListInv == ASSUME NodesInv, List PROVE NodesInv'
<1> USE DEF NodesInv
<1> DEFINE names == {n \in DiskNames : bus[n] # Absent}
<1>1. UNCHANGED <<bus, shown, mark, nodes, call, problems, left>> /\ names \subseteq DiskNames
  BY DEF List
<1> HIDE DEF names
<1>2. create' = [at |-> "look", names |-> names, name |-> 0, todo |-> {}]
  BY DEF List, names
<1>3. still' = [call |-> TRUE, boot |-> still.boot, all |-> FALSE]
  BY DEF List, History
<1>4. Bus' /\ Nodes'
  BY <1>1 DEF Bus, Nodes
<1>5. Call' /\ DiskMade' /\ PartsMade' /\ Taken'
  BY <1>1, <1>2 DEF Call, DiskMade, PartsMade, Taken
<1>6. History' /\ AllOwn'
  BY <1>1, <1>3 DEF History, AllOwn, Own
<1> QED
  BY <1>4, <1>5, <1>6

LEMMA LookInv == ASSUME NodesInv, Look PROVE NodesInv'
<1> USE DEF NodesInv
<1>1. UNCHANGED <<bus, shown, mark, nodes, call, problems, left, still>> /\ create # Absent /\ create.at = "look"
  BY DEF Look
<1>2. PICK n \in create.names :
        create' = IF bus[n] = LoaderDisk THEN [create EXCEPT !.at = "disk", !.name = n]
                  ELSE [create EXCEPT !.names = @ \ {n}]
  BY DEF Look
<1>3. n \in DiskNames /\ create = [at |-> "look", names |-> create.names, name |-> create.name, todo |-> create.todo]
  BY <1>1 DEF Call
<1>4. CASE bus[n] = LoaderDisk
  <2>1. create' = [at |-> "disk", names |-> create.names, name |-> n, todo |-> create.todo]
    BY <1>2, <1>3, <1>4
  <2>2. Call' /\ Taken' /\ DiskMade' /\ PartsMade'
    BY <1>1, <1>3, <1>4, <2>1 DEF Call, Taken, DiskMade, PartsMade
  <2> QED
    BY <1>1, <2>2 DEF Bus, Nodes, History, AllOwn, Own
<1>5. CASE bus[n] # LoaderDisk
  <2>1. create' = [at |-> "look", names |-> create.names \ {n}, name |-> create.name, todo |-> create.todo]
    BY <1>2, <1>3, <1>5
  <2>2. Call' /\ Taken' /\ DiskMade' /\ PartsMade'
    BY <1>1, <1>3, <2>1 DEF Call, Taken, DiskMade, PartsMade
  <2> QED
    BY <1>1, <2>2 DEF Bus, Nodes, History, AllOwn, Own
<1> QED
  BY <1>4, <1>5

LEMMA ListPartitionsInv == ASSUME NodesInv, ListPartitions PROVE NodesInv'
<1> USE DEF NodesInv
<1>1. UNCHANGED <<bus, shown, mark, nodes, call, problems, left>> /\ create # Absent /\ create.at = "parts"
  BY DEF ListPartitions
<1> DEFINE parts == shown[create.name]
<1>2. parts \in Nat /\ create.name \in DiskNames
  BY <1>1 DEF Call, Bus
<1>3. create' = [at |-> "nodes", names |-> create.names, name |-> create.name, todo |-> 1 .. parts]
  BY <1>1 DEF ListPartitions, Call
<1>4. still' = [call |-> still.call, boot |-> still.boot, all |-> parts = PartsOf[bus[create.name]]]
  BY DEF ListPartitions, History
<1>5. Bus' /\ Nodes'
  BY <1>1 DEF Bus, Nodes
<1>6. Call' /\ DiskMade'
  <2> HIDE DEF parts
  <2>1. 1 .. parts \subseteq Nat \ {0}
    BY <1>2
  <2> QED
    BY <1>1, <1>3, <2>1 DEF Call, DiskMade, Made
<1>7. History' /\ AllOwn' /\ Taken'
  BY <1>1, <1>3, <1>4 DEF History, AllOwn, Own, Taken
<1>8. PartsMade'
  <2> SUFFICES ASSUME still.call, parts = PartsOf[bus[create.name]], NEW p \in 1 .. 3 PROVE p \in create'.todo
    BY <1>4 DEF PartsMade
  <2>1. bus[create.name] = LoaderDisk
    BY <1>1 DEF Taken
  <2>2. parts >= 3
    BY <2>1, BootNodesAssumption
  <2> HIDE DEF parts
  <2> QED
    BY <1>2, <1>3, <2>2
<1> QED
  BY <1>5, <1>6, <1>7, <1>8

LEMMA GoOnInv == ASSUME NodesInv, GoOn PROVE NodesInv'
<1> USE DEF NodesInv
<1>1. /\ UNCHANGED <<bus, shown, still>> /\ create' = Absent
      /\ nodes' = nodes \/ nodes' = [p \in 0 .. 4 |-> Absent]
  BY DEF GoOn
<1>2. Nodes'
  BY <1>1 DEF Nodes
<1>3. AllOwn'
  <2>1. ASSUME NEW p \in 0 .. 4 PROVE nodes'[p] = nodes[p] \/ nodes'[p] = Absent
    BY <1>1
  <2> QED
    BY <1>1, <2>1 DEF AllOwn, Own
<1> QED
  BY <1>1, <1>2, <1>3 DEF Bus, Call, History, Taken, DiskMade, PartsMade

LEMMA CallEndsInv == ASSUME NodesInv, CreateFails \/ Check PROVE NodesInv'
<1> USE DEF NodesInv
<1>1. UNCHANGED <<bus, shown, nodes, still>> /\ create' \in {Absent, create}
  BY DEF CreateFails, Check
<1> QED
  BY <1>1 DEF Bus, Nodes, Call, History, Taken, AllOwn, Own, DiskMade, PartsMade, Made

\* A node that is made.
LEMMA NodeMade ==
  ASSUME NodesInv, create # Absent, create.at # "look", NEW p \in Nat, MknodBlock(p),
         UNCHANGED <<bus, still>>
  PROVE  /\ Nodes' /\ AllOwn'
         /\ \A q \in 0 .. 4 : nodes'[q] = IF q = p THEN [name |-> create.name, part |-> p] ELSE nodes[q]
<1> USE DEF NodesInv
<1> DEFINE node == [name |-> create.name, part |-> p]
<1>1. nodes' = [nodes EXCEPT ![p] = node] /\ nodes = [q \in 0 .. 4 |-> nodes[q]]
  BY DEF MknodBlock, Nodes
<1>2. node.name = create.name /\ node.part = p /\ create.name \in DiskNames
  BY DEF Call
<1> HIDE DEF node
<1>3. nodes' = [q \in 0 .. 4 |-> IF q = p THEN node ELSE nodes[q]]
  BY <1>1
<1>4. Nodes' /\ \A q \in 0 .. 4 : nodes'[q] = IF q = p THEN node ELSE nodes[q]
  BY <1>3 DEF Nodes
<1>5. AllOwn'
  <2> SUFFICES ASSUME still.boot, NEW q \in 0 .. 4 PROVE Own(q)'
    BY DEF AllOwn
  <2>1. bus[create.name] = LoaderDisk /\ Own(q)
    BY DEF History, Taken, AllOwn
  <2> QED
    BY <1>2, <1>4, <2>1 DEF Own
<1> QED
  BY <1>4, <1>5 DEF node

LEMMA MakeDiskInv == ASSUME NodesInv, MakeDisk PROVE NodesInv'
<1> USE DEF NodesInv
<1>1. /\ UNCHANGED <<bus, shown, mark, call, problems, left, still>>
      /\ create # Absent /\ create.at = "disk" /\ MknodBlock(0)
  BY DEF MakeDisk
<1>2. create' = [at |-> "parts", names |-> create.names, name |-> create.name, todo |-> create.todo]
  BY <1>1 DEF MakeDisk, Call
<1>3. Nodes' /\ AllOwn' /\ nodes'[0] = [name |-> create.name, part |-> 0]
  BY <1>1, NodeMade
<1>4. Call' /\ Taken' /\ DiskMade' /\ PartsMade'
  BY <1>1, <1>2, <1>3 DEF Call, Taken, DiskMade, PartsMade, Made
<1> QED
  BY <1>1, <1>3, <1>4 DEF Bus, History

LEMMA MakePartitionInv == ASSUME NodesInv, MakePartition PROVE NodesInv'
<1> USE DEF NodesInv
<1>1. UNCHANGED <<bus, shown, mark, call, problems, left, still>> /\ create # Absent /\ create.at = "nodes"
  BY DEF MakePartition
<1>2. PICK p \in create.todo : MknodBlock(p) /\ create' = [create EXCEPT !.todo = @ \ {p}]
  BY DEF MakePartition
<1>3. create' = [at |-> "nodes", names |-> create.names, name |-> create.name, todo |-> create.todo \ {p}]
  BY <1>1, <1>2 DEF Call
<1>4. p \in Nat \ {0}
  BY <1>1 DEF Call
<1>5. /\ Nodes' /\ AllOwn'
      /\ \A q \in 0 .. 4 : nodes'[q] = IF q = p THEN [name |-> create.name, part |-> p] ELSE nodes[q]
  BY <1>1, <1>2, <1>4, NodeMade
<1>6. Call' /\ Taken'
  BY <1>1, <1>3 DEF Call, Taken
<1>7. DiskMade' /\ PartsMade'
  <2>1. nodes'[0] = nodes[0]
    BY <1>4, <1>5
  <2>2. ASSUME NEW q \in 1 .. 3 PROVE nodes'[q] = IF q = p THEN [name |-> create.name, part |-> q] ELSE nodes[q]
    <3>1. nodes'[q] = IF q = p THEN [name |-> create.name, part |-> p] ELSE nodes[q]
      BY <1>5
    <3>2. CASE q = p
      BY <3>1, <3>2
    <3>3. CASE q # p
      BY <3>1, <3>3
    <3> QED
      BY <3>2, <3>3
  <2> QED
    BY <1>1, <1>3, <2>1, <2>2 DEF DiskMade, PartsMade, Made
<1> QED
  BY <1>1, <1>5, <1>6, <1>7 DEF Bus, History

LEMMA NodesStep == ASSUME NodesInv, [NodesNext]_nodeVars PROVE NodesInv'
<1>1. CASE UNCHANGED nodeVars
  BY <1>1 DEF nodeVars, NodesInv, Bus, Nodes, Call, History, Taken, AllOwn, Own, DiskMade, PartsMade, Made
<1> QED
  BY <1>1, AppearInv, RegisterInv, LeaveInv, ListInv, LookInv, ListPartitionsInv, CallEndsInv, GoOnInv,
     MakeDiskInv, MakePartitionInv DEF NodesNext

\* What a check without a problem has seen.
LEMMA CheckSound ==
  ASSUME NodesInv, Check, problems' = {}, still.call, still.boot \/ still.all, NEW p \in 0 .. 3
  PROVE  IsLoader(p, nodes[p]) /\ mark' = "none"
<1> USE DEF NodesInv
<1>1. create # Absent /\ create.at = "nodes" /\ create.todo = {} /\ create.name \in DiskNames /\ mark' = MarkAfter
  BY DEF Check, Call
<1>2. bus[create.name] = LoaderDisk
  BY <1>1 DEF Taken
<1>3. ~ReadOnly
  BY DEF Check
<1>4. mark' = "none"
  BY <1>1, <1>2, <1>3 DEF ReadOnly
<1>5. \A q \in 1 .. 3 : q <= shown[create.name] /\ Opens(q)
  <2> SUFFICES ASSUME NEW q \in 1 .. 3 PROVE q <= shown[create.name] /\ Opens(q)
    OBVIOUS
  <2> DEFINE missing == {r \in RequiredPartitions : r > shown[create.name]}
             closed == {r \in RequiredPartitions : r <= shown[create.name] /\ ~Opens(r)}
  <2>1. problems' = {<<"missing", r>> : r \in missing} \cup {<<"closed", r>> : r \in closed}
    BY <1>3 DEF Check
  <2>2. missing = {} /\ closed = {}
    <3> HIDE DEF missing, closed
    <3> QED
      BY <2>1
  <2>3. q \in RequiredPartitions /\ shown[create.name] \in Nat
    BY <1>1 DEF RequiredPartitions, Bus
  <2>4. ~(q > shown[create.name])
    BY <2>2, <2>3
  <2>5. q <= shown[create.name]
    BY <2>3, <2>4
  <2> QED
    BY <2>2, <2>3, <2>5
<1>6. \A q \in 0 .. 4 : [name |-> create.name, part |-> q] # Absent
  BY <1>1, BootNodesAssumption
<1>7. CASE p = 0
  <2>1. nodes[p] = [name |-> create.name, part |-> 0]
    BY <1>1, <1>7 DEF DiskMade, Made
  <2>2. nodes[p] # Absent /\ nodes[p].name = create.name /\ nodes[p].part = p /\ p <= shown[create.name]
    BY <1>1, <1>6, <1>7, <2>1 DEF Bus
  <2> QED
    BY <1>2, <1>4, <2>2 DEF IsLoader
<1>8. CASE p # 0
  <2>1. p \in 1 .. 3
    BY <1>8
  <2>2. CASE still.boot
    <3>1. nodes[p] # Absent /\ Own(p)
      BY <1>5, <2>1, <2>2 DEF Opens, AllOwn
    <3>2. nodes[p].name = create.name
      BY <1>1, <1>2, <3>1 DEF Own, Bus
    <3> QED
      BY <1>4, <1>5, <2>1, <3>1, <3>2 DEF Own, IsLoader
  <2>3. CASE still.all
    <3>1. nodes[p] = [name |-> create.name, part |-> p]
      BY <1>1, <2>1, <2>3 DEF PartsMade, Made
    <3>2. nodes[p] # Absent /\ nodes[p].name = create.name /\ nodes[p].part = p
      BY <1>6, <3>1
    <3> QED
      BY <1>2, <1>4, <1>5, <2>1, <3>2 DEF IsLoader
  <2> QED
    BY <2>2, <2>3
<1> QED
  BY <1>7, <1>8

\* synoboot.go, check.go: a call that ends without a problem leaves the nodes
\* that DSM's updater needs on the loader's partitions, writable, for any disks,
\* names and partitions, whatever moves between the two calls.
THEOREM NodesAreLoadersCorrect == NodesSpec => NodesAreLoaders
<1>1. NodesInit => NodesInv
  BY BootNodesAssumption DEF NodesInit, NodesInv, Bus, Nodes, Call, History, Taken, AllOwn, Own, DiskMade, PartsMade
<1>2. NodesInv /\ [NodesNext]_nodeVars => NodesInv'
  BY NodesStep
<1>3. NodesInv /\ [NodesNext]_nodeVars =>
        [problems = Absent /\ problems' = {} /\ still.call /\ (still.boot \/ still.all) =>
           \A p \in 0 .. 3 : IsLoader(p, nodes[p]) /\ mark' = "none"]_nodeVars
  <2> SUFFICES ASSUME NodesInv, NodesNext, problems = Absent, problems' = {}, still.call, still.boot \/ still.all,
                      NEW p \in 0 .. 3
               PROVE  IsLoader(p, nodes[p]) /\ mark' = "none"
    OBVIOUS
  <2>1. problems' # problems /\ problems' # Absent
    BY BootNodesAssumption
  <2>2. Check
    BY <2>1 DEF NodesNext, Appear, Register, Leave, List, Look, MakeDisk, ListPartitions, MakePartition,
                CreateFails, GoOn, nodeVars
  <2> QED
    BY <2>2, CheckSound
<1> QED
  BY <1>1, <1>2, <1>3, PTL DEF NodesSpec, NodesAreLoaders
-----------------------------------------------------------------------------
(***************************************************************************)
(* The flasher guard.                                                      *)
(***************************************************************************)

Pieces == {"half", "rest", "line"}

GuardTyped ==
  /\ file \in [Flashers -> {"none", "program", "stub"}]
  /\ log \in Seq(Pieces) /\ partial \in {<<>>, <<"half">>} /\ offset \in Nat
  /\ install \in {"idle", "unpack", "half", "passed", "failed", "done"} /\ looks \in 0 .. 3
  /\ guard \in [burst : BOOLEAN, own : BOOLEAN] /\ overlap \in BOOLEAN

\* What was written since the guard's last look says nothing of a checksum.
Clean ==
  \A i \in 1 .. Len(log) : (Len(log) < offset \/ i > offset) => log[i] = "line"

\* It ends with the first half of the line, or that is what the guard keeps.
HalfThere ==
  /\ Len(log) > 0 /\ log[Len(log)] = "half"
  /\ \A i \in 1 .. Len(log) - 1 : (Len(log) < offset \/ i > offset) => log[i] = "line"
  /\ Len(log) = offset => partial = <<"half">>

\* The line is in it, and the guard has not looked.
LineThere ==
  \/ \E i \in 1 .. Len(log) - 1 :
       (Len(log) < offset \/ i > offset) /\ log[i] = "half" /\ log[i + 1] = "rest"
  \/ Len(log) > offset /\ partial = <<"half">> /\ log[offset + 1] = "rest"

Programs == {p \in Flashers : file[p] = "program"}

LogInv ==
  /\ install \notin {"half", "passed"} \/ guard.burst => Clean
  /\ install = "half" => HalfThere /\ ~guard.burst
  /\ install = "passed" /\ ~guard.burst => LineThere /\ looks = 0
FilesInv ==
  /\ install = "unpack" =>
       /\ \A p \in Summed : file[p] \in {"program", "stub"}
       /\ ~overlap => ~guard.burst /\ Summed \subseteq Programs
       /\ guard.burst /\ looks > 0 => Summed \cap Programs = {}
  /\ install = "passed" /\ guard.burst => guard.own /\ (looks > 1 => Programs = {})
  /\ NoFlash /\ ChecksumHolds
GuardInv == GuardTyped /\ LogInv /\ FilesInv
-----------------------------------------------------------------------------
(* The line in a text.                                                     *)

LEMMA SaidNone ==
  ASSUME NEW text \in Seq(Pieces), \A i \in 2 .. Len(text) : ~(text[i - 1] = "half" /\ text[i] = "rest")
  PROVE  Said(text) = 0
<1>1. {i \in 2 .. Len(text) : text[i - 1] = "half" /\ text[i] = "rest"} = {}
  OBVIOUS
<1> QED
  BY <1>1, FS_EmptySet DEF Said

LEMMA SaidSome ==
  ASSUME NEW text \in Seq(Pieces), NEW i \in 2 .. Len(text), text[i - 1] = "half", text[i] = "rest"
  PROVE  Said(text) \in Nat /\ Said(text) > 0
<1> DEFINE S == {j \in 2 .. Len(text) : text[j - 1] = "half" /\ text[j] = "rest"}
<1>1. IsFiniteSet(2 .. Len(text))
  BY FS_Interval
<1>2. IsFiniteSet(S)
  BY <1>1, FS_Subset
<1>3. S # {}
  OBVIOUS
<1> HIDE DEF S
<1>4. Cardinality(S) \in Nat /\ Cardinality(S) # 0
  BY <1>2, <1>3, FS_EmptySet, FS_CardinalityType
<1> QED
  BY <1>4 DEF Said, S

\* The text a look finds, piece by piece.
LEMMA TextThere ==
  ASSUME GuardTyped, Len(log) >= offset
  PROVE  /\ NewText \in Seq(Pieces) /\ Len(NewText) = Len(partial) + Len(log) - offset
         /\ \A i \in 1 .. Len(partial) : NewText[i] = "half"
         /\ \A i \in Len(partial) + 1 .. Len(NewText) : NewText[i] = log[offset + i - Len(partial)]
         /\ Len(partial) \in 0 .. 1
<1> USE DEF GuardTyped
<1> DEFINE rest == SubSeq(log, offset + 1, Len(log))
<1>1. rest \in Seq(Pieces) /\ Len(rest) = Len(log) - offset /\ \A i \in 1 .. Len(rest) : rest[i] = log[offset + i]
  <2>1. Len(log) \in Nat /\ offset \in Nat /\ log \in Seq(Pieces)
    OBVIOUS
  <2>2. rest = [i \in 1 .. Len(log) - offset |-> log[i + offset]]
    BY <2>1
  <2> QED
    BY <2>1, <2>2
<1> HIDE DEF rest
<1>2. NewText = partial \o rest
  BY DEF NewText, rest
<1>3. partial \in Seq(Pieces) /\ Len(partial) \in 0 .. 1 /\ \A i \in 1 .. Len(partial) : partial[i] = "half"
  <2>1. CASE partial = <<>>
    BY <2>1
  <2>2. CASE partial = <<"half">>
    BY <2>2 DEF Pieces
  <2> QED
    BY <2>1, <2>2
<1>4. /\ NewText \in Seq(Pieces) /\ Len(NewText) = Len(partial) + Len(rest)
      /\ \A i \in 1 .. Len(NewText) : NewText[i] = IF i <= Len(partial) THEN partial[i] ELSE rest[i - Len(partial)]
  <2> HIDE DEF GuardTyped
  <2> QED
    BY <1>1, <1>2, <1>3
<1>5. \A i \in Len(partial) + 1 .. Len(NewText) : NewText[i] = log[offset + i - Len(partial)]
  <2> TAKE i \in Len(partial) + 1 .. Len(NewText)
  <2>1. i - Len(partial) \in 1 .. Len(rest) /\ i \in 1 .. Len(NewText) /\ ~(i <= Len(partial))
    BY <1>1, <1>3, <1>4
  <2>2. rest[i - Len(partial)] = log[offset + (i - Len(partial))]
    BY <1>1, <2>1
  <2>3. offset + (i - Len(partial)) = offset + i - Len(partial)
    BY <1>3, <2>1
  <2> QED
    BY <1>4, <2>1, <2>2, <2>3
<1> QED
  BY <1>1, <1>3, <1>4, <1>5

LEMMA TextCut ==
  ASSUME GuardTyped, Len(log) < offset
  PROVE  NewText = log /\ NewText \in Seq(Pieces)
BY DEF GuardTyped, NewText

\* What a look makes of each of them.
LEMMA CleanSaysNothing == ASSUME GuardTyped, Clean PROVE NewText \in Seq(Pieces) /\ Said(NewText) = 0
<1>1. CASE Len(log) < offset
  <2>1. \A i \in 1 .. Len(NewText) : NewText[i] = "line"
    BY <1>1, TextCut DEF Clean
  <2> QED
    BY <1>1, <2>1, TextCut, SaidNone
<1>2. CASE Len(log) >= offset
  <2>1. ASSUME NEW i \in 2 .. Len(NewText) PROVE NewText[i] = "line"
    <3> DEFINE k == Len(partial)
    <3>1. k \in Nat /\ k <= 1 /\ Len(NewText) = k + Len(log) - offset /\ Len(log) \in Nat /\ offset \in Nat
      <4>1. Len(partial) \in 0 .. 1 /\ Len(NewText) = Len(partial) + Len(log) - offset
        BY <1>2, TextThere
      <4>2. Len(log) \in Nat /\ offset \in Nat
        BY DEF GuardTyped
      <4>3. Len(partial) \in Nat /\ Len(partial) <= 1
        <5>1. partial = <<>> \/ partial = <<"half">>
          BY DEF GuardTyped
        <5> QED
          BY <5>1
      <4> QED
        BY <4>1, <4>2, <4>3
    <3>5. i \in Nat /\ i >= 2 /\ i <= Len(NewText)
      <4> HIDE DEF k
      <4> QED
        BY <3>1
    <3> HIDE DEF k
    <3>2. i \in k + 1 .. Len(NewText)
      BY <3>1, <3>5
    <3>3. offset + i - k \in 1 .. Len(log) /\ offset + i - k > offset
      BY <3>1, <3>5
    <3>4. NewText[i] = log[offset + i - k]
      BY <1>2, <3>2, TextThere DEF k
    <3> QED
      BY <3>3, <3>4 DEF Clean
  <2> QED
    BY <1>2, <2>1, TextThere, SaidNone
<1> QED
  BY <1>1, <1>2 DEF GuardTyped

LEMMA HalfSaysNothing ==
  ASSUME GuardTyped, HalfThere
  PROVE  NewText \in Seq(Pieces) /\ Said(NewText) = 0 /\ Unfinished(NewText) = <<"half">>
<1>0. Len(log) \in Nat /\ offset \in Nat
  BY DEF GuardTyped
<1>1. CASE Len(log) < offset
  <2>1. \A i \in 1 .. Len(NewText) : NewText[i] # "rest"
    BY <1>1, TextCut DEF HalfThere
  <2>2. NewText # <<>> /\ NewText[Len(NewText)] = "half"
    BY <1>1, TextCut DEF HalfThere
  <2> QED
    BY <1>1, <2>1, <2>2, TextCut, SaidNone DEF Unfinished, Last
<1>2. CASE Len(log) > offset
  <2>1. /\ NewText \in Seq(Pieces) /\ Len(NewText) = Len(partial) + Len(log) - offset
        /\ \A i \in 1 .. Len(partial) : NewText[i] = "half"
        /\ \A i \in Len(partial) + 1 .. Len(NewText) : NewText[i] = log[offset + i - Len(partial)]
        /\ Len(partial) \in 0 .. 1
    BY <1>0, <1>2, TextThere
  <2>2. NewText[Len(NewText)] = "half" /\ Len(NewText) > 0
    <3>1. Len(NewText) \in Len(partial) + 1 .. Len(NewText) /\ offset + Len(NewText) - Len(partial) = Len(log)
      BY <1>0, <1>2, <2>1
    <3> QED
      BY <2>1, <3>1 DEF HalfThere
  <2>3. ASSUME NEW i \in 1 .. Len(NewText) PROVE NewText[i] # "rest"
    <3>1. CASE i <= Len(partial)
      BY <2>1, <3>1
    <3>2. CASE i > Len(partial)
      <4>1. offset + i - Len(partial) \in 1 .. Len(log) /\ offset + i - Len(partial) > offset
        BY <1>0, <1>2, <2>1, <3>2
      <4>2. log[offset + i - Len(partial)] # "rest"
        BY <4>1 DEF HalfThere
      <4> QED
        BY <2>1, <3>2, <4>2
    <3> QED
      BY <2>1, <3>1, <3>2
  <2>4. NewText # <<>>
    BY <2>2
  <2> QED
    BY <2>1, <2>2, <2>3, <2>4, SaidNone DEF Unfinished, Last
<1>3. CASE Len(log) = offset
  <2>1. partial = <<"half">> /\ Len(partial) = 1
    BY <1>3 DEF HalfThere
  <2>2. NewText \in Seq(Pieces) /\ Len(NewText) = 1 /\ NewText[1] = "half"
    BY <1>0, <1>3, <2>1, TextThere
  <2>3. NewText # <<>> /\ NewText[Len(NewText)] = "half"
    BY <2>2
  <2> QED
    BY <2>2, <2>3, SaidNone DEF Unfinished, Last
<1> QED
  BY <1>0, <1>1, <1>2, <1>3

LEMMA LineIsSaid == ASSUME GuardTyped, LineThere PROVE Said(NewText) \in Nat /\ Said(NewText) > 0
<1>0. Len(log) \in Nat /\ offset \in Nat
  BY DEF GuardTyped
<1>1. CASE Len(log) < offset
  <2>1. PICK i \in 1 .. Len(log) - 1 : log[i] = "half" /\ log[i + 1] = "rest"
    BY <1>0, <1>1 DEF LineThere
  <2>2. i + 1 \in 2 .. Len(NewText) /\ NewText[(i + 1) - 1] = "half" /\ NewText[i + 1] = "rest"
    BY <1>0, <1>1, <2>1, TextCut
  <2> QED
    BY <1>1, <2>2, TextCut, SaidSome
<1>2. CASE Len(log) >= offset
  <2>1. /\ NewText \in Seq(Pieces) /\ Len(NewText) = Len(partial) + Len(log) - offset
        /\ \A i \in 1 .. Len(partial) : NewText[i] = "half"
        /\ \A i \in Len(partial) + 1 .. Len(NewText) : NewText[i] = log[offset + i - Len(partial)]
        /\ Len(partial) \in 0 .. 1
    BY <1>2, TextThere
  <2>2. CASE \E i \in 1 .. Len(log) - 1 : i > offset /\ log[i] = "half" /\ log[i + 1] = "rest"
    <3>1. PICK i \in 1 .. Len(log) - 1 : i > offset /\ log[i] = "half" /\ log[i + 1] = "rest"
      BY <2>2
    <3> DEFINE j == i - offset + Len(partial)
    <3>2. j + 1 \in 2 .. Len(NewText) /\ j \in Len(partial) + 1 .. Len(NewText) /\ j + 1 \in Len(partial) + 1 .. Len(NewText)
          /\ offset + j - Len(partial) = i /\ offset + (j + 1) - Len(partial) = i + 1
      BY <1>0, <1>2, <2>1, <3>1
    <3> HIDE DEF j
    <3>3. NewText[j] = log[i] /\ NewText[j + 1] = log[i + 1] /\ (j + 1) - 1 = j
      BY <2>1, <3>2
    <3> QED
      BY <2>1, <3>1, <3>2, <3>3, SaidSome
  <2>3. CASE Len(log) > offset /\ partial = <<"half">> /\ log[offset + 1] = "rest"
    <3>1. Len(partial) = 1
      BY <2>3
    <3>2. Len(NewText) >= 2 /\ NewText[1] = "half" /\ NewText[2] = "rest"
      BY <1>0, <2>1, <2>3, <3>1
    <3>3. 2 \in 2 .. Len(NewText) /\ 2 - 1 = 1
      BY <2>1, <3>1, <3>2, <1>0
    <3> QED
      BY <2>1, <3>2, <3>3, SaidSome
  <2> QED
    BY <1>0, <1>2, <2>2, <2>3 DEF LineThere
<1> QED
  BY <1>0, <1>1, <1>2
-----------------------------------------------------------------------------
(* The steps.                                                              *)

\* A piece more in the log.
LEMMA Appended ==
  ASSUME GuardTyped, NEW piece \in Pieces, Says(piece)
  PROVE  /\ log' \in Seq(Pieces) /\ Len(log') = Len(log) + 1 /\ log'[Len(log) + 1] = piece
         /\ \A i \in 1 .. Len(log) : log'[i] = log[i]
         /\ Len(log) \in Nat /\ offset \in Nat /\ (~guard.burst => Len(log) + 1 # offset)
BY DEF GuardTyped, Says

\* Nothing the log holds matters to a step that leaves it.
LEMMA SameLog ==
  ASSUME UNCHANGED <<log, offset, partial>>
  PROVE  Clean' = Clean /\ HalfThere' = HalfThere /\ LineThere' = LineThere
BY DEF Clean, HalfThere, LineThere

LEMMA ChatterInv == ASSUME GuardInv, Chatter PROVE GuardInv'
<1> USE DEF GuardInv
<1>1. /\ install # "half" /\ Says("line") /\ "line" \in Pieces
      /\ UNCHANGED <<file, install, looks, attempts, cuts, guard, offset, partial, unhandled, overlap, ran>>
  BY DEF Chatter, Pieces
<1>2. /\ log' \in Seq(Pieces) /\ Len(log') = Len(log) + 1 /\ log'[Len(log) + 1] = "line"
      /\ \A i \in 1 .. Len(log) : log'[i] = log[i]
      /\ Len(log) \in Nat /\ offset \in Nat /\ (~guard.burst => Len(log) + 1 # offset)
  BY <1>1, Appended
<1>3. GuardTyped'
  BY <1>1, <1>2 DEF GuardTyped
<1>4. Clean => Clean'
  BY <1>1, <1>2 DEF Clean
<1>5. LineThere /\ ~guard.burst => LineThere'
  <2> SUFFICES ASSUME LineThere, ~guard.burst PROVE LineThere'
    OBVIOUS
  <2>1. CASE \E i \in 1 .. Len(log) - 1 : (Len(log) < offset \/ i > offset) /\ log[i] = "half" /\ log[i + 1] = "rest"
    <3>1. PICK i \in 1 .. Len(log) - 1 : (Len(log) < offset \/ i > offset) /\ log[i] = "half" /\ log[i + 1] = "rest"
      BY <2>1
    <3>2. i \in 1 .. Len(log') - 1 /\ (Len(log') < offset' \/ i > offset') /\ log'[i] = "half" /\ log'[i + 1] = "rest"
      BY <1>1, <1>2, <3>1
    <3> QED
      BY <3>2 DEF LineThere
  <2>2. CASE Len(log) > offset /\ partial = <<"half">> /\ log[offset + 1] = "rest"
    <3>1. Len(log') > offset' /\ partial' = <<"half">> /\ log'[offset' + 1] = "rest"
      BY <1>1, <1>2, <2>2
    <3> QED
      BY <3>1 DEF LineThere
  <2> QED
    BY <2>1, <2>2 DEF LineThere
<1>6. LogInv'
  BY <1>1, <1>4, <1>5 DEF LogInv
<1>7. FilesInv'
  BY <1>1 DEF FilesInv, Programs, NoFlash, ChecksumHolds
<1> QED
  BY <1>3, <1>6, <1>7

LEMMA CutInv == ASSUME GuardInv, Cut PROVE GuardInv'
<1> USE DEF GuardInv
<1>1. /\ install # "half" /\ (install = "passed" => looks > 0) /\ log' = <<>>
      /\ UNCHANGED <<file, install, looks, attempts, guard, offset, partial, unhandled, overlap, ran>>
  BY DEF Cut
<1>2. GuardTyped'
  BY <1>1 DEF GuardTyped
<1>3. Clean'
  BY <1>1 DEF Clean
<1>4. install = "passed" => guard.burst
  BY <1>1 DEF LogInv, GuardTyped
<1>5. LogInv'
  BY <1>1, <1>3, <1>4 DEF LogInv
<1>6. FilesInv'
  BY <1>1 DEF FilesInv, Programs, NoFlash, ChecksumHolds
<1> QED
  BY <1>2, <1>5, <1>6

LEMMA UnpackInv == ASSUME GuardInv, Unpack PROVE GuardInv'
<1> USE DEF GuardInv
<1>1. /\ install = "idle" /\ install' = "unpack" /\ looks' = 0
      /\ overlap' = guard.burst /\ guard' = [guard EXCEPT !.own = FALSE]
      /\ UNCHANGED <<log, cuts, offset, partial, unhandled, ran>>
  BY DEF Unpack
<1>2. PICK there \in SUBSET Flashers :
        Summed \subseteq there /\ file' = [p \in Flashers |-> IF p \in there THEN "program" ELSE file[p]]
  BY DEF Unpack
<1>3. guard' \in [burst : BOOLEAN, own : BOOLEAN] /\ guard'.burst = guard.burst
  BY <1>1 DEF GuardTyped
<1>4. file' \in [Flashers -> {"none", "program", "stub"}] /\ \A p \in Summed : p \in Flashers /\ file'[p] = "program"
  BY <1>2, FlashersAssumption DEF GuardTyped
<1>5. GuardTyped'
  BY <1>1, <1>3, <1>4 DEF GuardTyped
<1>6. LogInv'
  BY <1>1, SameLog DEF LogInv
<1>7. FilesInv'
  BY <1>1, <1>3, <1>4 DEF FilesInv, Programs, NoFlash, ChecksumHolds
<1> QED
  BY <1>5, <1>6, <1>7

LEMMA CheckPassesInv == ASSUME GuardInv, CheckPasses PROVE GuardInv'
<1> USE DEF GuardInv
<1>1. /\ install = "unpack" /\ looks >= 2 /\ (\A p \in Summed : file[p] = "program")
      /\ Says("half") /\ "half" \in Pieces /\ install' = "half"
      /\ UNCHANGED <<file, looks, attempts, cuts, guard, offset, partial, unhandled, overlap, ran>>
  BY DEF CheckPasses, LooksBeforeCheck, Pieces
<1>2. ~guard.burst
  <2>1. Summed \cap Programs # {}
    BY <1>1, FlashersAssumption DEF Programs
  <2> QED
    BY <1>1, <2>1 DEF FilesInv, GuardTyped
<1>3. /\ log' \in Seq(Pieces) /\ Len(log') = Len(log) + 1 /\ log'[Len(log) + 1] = "half"
      /\ \A i \in 1 .. Len(log) : log'[i] = log[i]
      /\ Len(log) \in Nat /\ offset \in Nat /\ Len(log) + 1 # offset
  BY <1>1, <1>2, Appended
<1>4. GuardTyped'
  BY <1>1, <1>3 DEF GuardTyped
<1>5. HalfThere'
  BY <1>1, <1>3 DEF LogInv, Clean, HalfThere
<1>6. LogInv'
  BY <1>1, <1>2, <1>5 DEF LogInv
<1>7. FilesInv'
  BY <1>1 DEF FilesInv, Programs, NoFlash, ChecksumHolds
<1> QED
  BY <1>4, <1>6, <1>7

LEMMA CheckFailsInv == ASSUME GuardInv, CheckFails PROVE GuardInv'
<1> USE DEF GuardInv
<1>1. /\ install = "unpack" /\ install' = "failed" /\ \E p \in Summed : file[p] = "stub"
      /\ UNCHANGED <<file, log, looks, attempts, cuts, guard, offset, partial, unhandled, overlap, ran>>
  BY DEF CheckFails
<1>2. overlap
  BY <1>1 DEF FilesInv, Programs
<1>3. GuardTyped' /\ LogInv'
  BY <1>1, SameLog DEF GuardTyped, LogInv
<1> QED
  BY <1>1, <1>2, <1>3 DEF FilesInv, NoFlash, ChecksumHolds

LEMMA LineEndsInv == ASSUME GuardInv, LineEnds PROVE GuardInv'
<1> USE DEF GuardInv
<1>1. /\ install = "half" /\ install' = "passed" /\ looks' = 0 /\ Says("rest") /\ "rest" \in Pieces
      /\ UNCHANGED <<file, attempts, cuts, guard, offset, partial, unhandled, overlap, ran>>
  BY DEF LineEnds, Pieces
<1>2. HalfThere /\ ~guard.burst
  BY <1>1 DEF LogInv
<1>3. /\ log' \in Seq(Pieces) /\ Len(log') = Len(log) + 1 /\ log'[Len(log) + 1] = "rest"
      /\ \A i \in 1 .. Len(log) : log'[i] = log[i]
      /\ Len(log) \in Nat /\ offset \in Nat /\ Len(log) + 1 # offset
  BY <1>1, <1>2, Appended
<1>4. GuardTyped'
  BY <1>1, <1>3 DEF GuardTyped
<1>5. LineThere'
  <2>1. CASE Len(log) = offset
    <3>1. Len(log') > offset' /\ partial' = <<"half">> /\ log'[offset' + 1] = "rest"
      BY <1>1, <1>2, <1>3, <2>1 DEF HalfThere
    <3> QED
      BY <3>1 DEF LineThere
  <2>2. CASE Len(log) # offset
    <3> DEFINE i == Len(log)
    <3>1. i \in 1 .. Len(log') - 1 /\ log'[i] = "half" /\ log'[i + 1] = "rest" /\ (Len(log') < offset' \/ i > offset')
      BY <1>1, <1>2, <1>3, <2>2 DEF HalfThere
    <3> HIDE DEF i
    <3> QED
      BY <3>1 DEF LineThere
  <2> QED
    BY <2>1, <2>2
<1>6. LogInv'
  BY <1>1, <1>2, <1>5 DEF LogInv
<1>7. FilesInv'
  BY <1>1, <1>2 DEF FilesInv, NoFlash, ChecksumHolds
<1> QED
  BY <1>4, <1>6, <1>7

LEMMA UnpackLateInv == ASSUME GuardInv, NEW p \in Flashers, UnpackLate(p) PROVE GuardInv'
<1> USE DEF GuardInv
<1>1. /\ install = "passed" /\ looks' = 0 /\ file' = [file EXCEPT ![p] = "program"]
      /\ UNCHANGED <<log, install, attempts, cuts, guard, offset, partial, unhandled, overlap, ran>>
  BY DEF UnpackLate
<1>2. GuardTyped' /\ LogInv'
  BY <1>1, SameLog DEF GuardTyped, LogInv
<1> QED
  BY <1>1, <1>2 DEF FilesInv, NoFlash, ChecksumHolds

LEMMA RunInv == ASSUME GuardInv, Run PROVE GuardInv'
<1> USE DEF GuardInv
<1>1. /\ install = "passed" /\ install' = "done" /\ looks >= 3 /\ ran' = ran \cup {file[p] : p \in Flashers}
      /\ UNCHANGED <<file, log, looks, attempts, cuts, guard, offset, partial, unhandled, overlap>>
  BY DEF Run, LooksBeforeRun
<1>2. guard.burst /\ Programs = {}
  BY <1>1 DEF LogInv, FilesInv, GuardTyped
<1>3. GuardTyped' /\ LogInv'
  BY <1>1, <1>2, SameLog DEF GuardTyped, LogInv
<1>4. NoFlash'
  BY <1>1, <1>2 DEF FilesInv, NoFlash, Programs
<1> QED
  BY <1>1, <1>3, <1>4 DEF FilesInv, ChecksumHolds

LEMMA AgainInv == ASSUME GuardInv, Again PROVE GuardInv'
<1>1. /\ install \in {"failed", "done"} /\ install' = "idle"
      /\ UNCHANGED <<file, log, looks, attempts, cuts, guard, offset, partial, unhandled, overlap, ran>>
  BY DEF Again
<1> QED
  BY <1>1, SameLog DEF GuardInv, GuardTyped, LogInv, FilesInv, NoFlash, ChecksumHolds

LEMMA PollInv == ASSUME GuardInv, Poll PROVE GuardInv'
<1> USE DEF GuardInv
<1> DEFINE said == Said(NewText)
           found == said > 0
<1>1. /\ ~guard.burst /\ offset' = Len(log) /\ partial' = Unfinished(NewText)
      /\ guard' = [burst |-> found, own |-> found /\ install = "passed"]
      /\ looks' = IF looks < 3 THEN looks + 1 ELSE looks
      /\ UNCHANGED <<file, log, install, attempts, cuts, overlap, ran>>
  BY DEF Poll, Polled, Looks, LooksBeforeRun
<1> HIDE DEF found
<1>0. guard'.burst = found /\ guard'.own = (found /\ install = "passed")
  BY <1>1, Zenon
<1> HIDE DEF said
<1>2. GuardTyped'
  BY <1>1 DEF GuardTyped, Unfinished, found
<1>3. Clean'
  BY <1>1 DEF Clean, GuardTyped
<1>4. CASE install \notin {"half", "passed"}
  <2>1. said = 0
    BY <1>4, CleanSaysNothing DEF LogInv, said
  <2>2. ~guard'.burst
    <3>1. ~found
      BY <2>1 DEF found
    <3> QED
      BY <1>0, <3>1, Zenon
  <2>3. LogInv'
    BY <1>1, <1>3, <1>4, <2>2 DEF LogInv
  <2>4. FilesInv'
    BY <1>1, <1>4, <2>2 DEF FilesInv, Programs, NoFlash, ChecksumHolds
  <2> QED
    BY <1>2, <2>3, <2>4
<1>5. CASE install = "half"
  <2>1. said = 0 /\ partial' = <<"half">> /\ HalfThere
    BY <1>1, <1>5, HalfSaysNothing DEF LogInv, said
  <2>2. ~guard'.burst
    <3>1. ~found
      BY <2>1 DEF found
    <3> QED
      BY <1>0, <3>1, Zenon
  <2>3. HalfThere'
    BY <1>1, <2>1 DEF HalfThere, GuardTyped
  <2> QED
    BY <1>1, <1>2, <1>5, <2>2, <2>3 DEF LogInv, FilesInv, NoFlash, ChecksumHolds
<1>6. CASE install = "passed"
  <2>1. said \in Nat /\ said > 0 /\ looks = 0
    BY <1>1, <1>6, LineIsSaid DEF LogInv, said
  <2>2. guard'.burst /\ guard'.own /\ looks' = 1
    <3>1. found
      BY <2>1 DEF found
    <3>2. looks' = 1
      BY <1>1, <2>1
    <3> QED
      BY <1>0, <1>6, <3>1, <3>2, Zenon
  <2> QED
    BY <1>1, <1>2, <1>3, <1>6, <2>2 DEF LogInv, FilesInv, NoFlash, ChecksumHolds
<1> QED
  BY <1>4, <1>5, <1>6

LEMMA RoundInv == ASSUME GuardInv, Round PROVE GuardInv'
<1> USE DEF GuardInv
<1>1. /\ guard.burst /\ file' = [p \in Flashers |-> IF file[p] = "none" THEN "none" ELSE "stub"]
      /\ looks' = IF looks < 3 THEN looks + 1 ELSE looks
      /\ UNCHANGED <<log, install, attempts, cuts, guard, offset, partial, unhandled, overlap, ran>>
  BY DEF Round, Looks, LooksBeforeRun
<1>2. GuardTyped'
  BY <1>1 DEF GuardTyped
<1>3. Programs' = {}
  BY <1>1 DEF Programs
<1>4. LogInv'
  BY <1>1, SameLog DEF LogInv
<1>5. \A p \in Summed : file[p] \in {"program", "stub"} => file'[p] \in {"program", "stub"}
  BY <1>1, FlashersAssumption
<1> QED
  BY <1>1, <1>2, <1>3, <1>4, <1>5 DEF FilesInv, NoFlash, ChecksumHolds

LEMMA BurstEndsInv == ASSUME GuardInv, BurstEnds PROVE GuardInv'
<1> USE DEF GuardInv
<1> DEFINE more == unhandled > 1
<1>1. /\ guard.burst /\ ~(guard.own /\ install = "passed") /\ guard' = [burst |-> more, own |-> FALSE]
      /\ UNCHANGED <<file, log, install, looks, attempts, cuts, offset, partial, overlap, ran>>
  BY DEF BurstEnds
<1> HIDE DEF more
<1>2. more \in BOOLEAN
  BY DEF more
<1>3. install \notin {"passed", "half"} /\ Clean
  BY <1>1 DEF LogInv, FilesInv
<1>4. GuardTyped' /\ LogInv'
  BY <1>1, <1>2, <1>3, SameLog DEF GuardTyped, LogInv
<1> QED
  BY <1>1, <1>3, <1>4 DEF FilesInv, Programs, NoFlash, ChecksumHolds

LEMMA GuardStep == ASSUME GuardInv, [GuardNext]_guardVars PROVE GuardInv'
<1>1. CASE UNCHANGED guardVars
  BY <1>1, SameLog DEF guardVars, GuardInv, GuardTyped, LogInv, FilesInv, Programs, NoFlash, ChecksumHolds
<1> QED
  BY <1>1, ChatterInv, CutInv, UnpackInv, CheckPassesInv, CheckFailsInv, LineEndsInv, UnpackLateInv,
     RunInv, AgainInv, PollInv, RoundInv, BurstEndsInv DEF GuardNext

LEMMA GuardInvAlways == GuardSpec => []GuardInv
<1>1. GuardInit => GuardInv
  <2> SUFFICES ASSUME GuardInit PROVE GuardInv
    OBVIOUS
  <2> USE DEF GuardInit
  <2>1. GuardTyped
    <3>1. file \in [Flashers -> {"none", "program", "stub"}] /\ guard \in [burst : BOOLEAN, own : BOOLEAN]
      OBVIOUS
    <3>2. log \in Seq(Pieces) /\ partial \in {<<>>, <<"half">>} /\ offset \in Nat
      OBVIOUS
    <3>3. install \in {"idle", "unpack", "half", "passed", "failed", "done"} /\ looks \in 0 .. 3
      OBVIOUS
    <3>4. overlap \in BOOLEAN
      OBVIOUS
    <3> QED
      BY <3>1, <3>2, <3>3, <3>4 DEF GuardTyped
  <2>2. Clean
    BY DEF Clean
  <2>3. LogInv
    BY <2>2 DEF LogInv
  <2>4. FilesInv
    BY DEF FilesInv, NoFlash, ChecksumHolds
  <2> QED
    BY <2>1, <2>3, <2>4 DEF GuardInv
<1>2. GuardInv /\ [GuardNext]_guardVars => GuardInv'
  BY GuardStep
<1> QED
  BY <1>1, <1>2, PTL DEF GuardSpec

\* guard.go: no flasher ever runs, for any programs, however often the installer
\* tries and the log is cut.
THEOREM NoFlashCorrect == GuardSpec => []NoFlash
<1>1. GuardInv => NoFlash
  BY DEF GuardInv, FilesInv
<1> QED
  BY <1>1, GuardInvAlways, PTL

\* guard.go: a checksum never fails on the guard's stub, unless the attempt began
\* within the minute after an earlier one's line.
THEOREM ChecksumHoldsCorrect == GuardSpec => []ChecksumHolds
<1>1. GuardInv => ChecksumHolds
  BY DEF GuardInv, FilesInv
<1> QED
  BY <1>1, GuardInvAlways, PTL
=============================================================================
