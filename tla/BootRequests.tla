---------------------------- MODULE BootRequests ----------------------------
(***************************************************************************)
(* Requests that outlive a reboot, as files on the loader's partition 1:   *)
(*                                                                         *)
(* - vibeldr-next.cfg, sourced by the rewritten grub.cfg: the agent in DSM *)
(*   writes it to have the next boot open the loader (nextBootLoader), and *)
(*   the loader puts it back when it starts (resetNextBoot);               *)
(* - vibeldr-dsm-tasks: the loader's rescue menu queues repairs            *)
(*   (dsmFixMenu), which the helper takes and makes on the installed DSM   *)
(*   just before DSM starts (doDSMTasks).                                  *)
(*                                                                         *)
(* next, queue, db and bak are the files as the running system reads them; *)
(* nextDisk, queueDisk and bakDisk what is on the medium.  Power may go in *)
(* every stage; what was written and not synced is then old, new or part.  *)
(***************************************************************************)
EXTENDS Naturals

CONSTANTS
  Tasks,   \* the repairs, each on a database of its own (dsmTasks)
  Mounts,  \* how the loader may find partition 1: "rw", "ro", "none"
  None,    \* no such file
  Torn     \* a file only partly written

ASSUME RequestsAssumption ==
  /\ Mounts \subseteq {"rw", "ro", "none"}
  /\ None # Torn /\ {None, Torn} \cap {"idle", "loader", "user", "fixed"} = {}

VARIABLES
  stage,            \* where the machine is
  mount,            \* how the loader holds partition 1
  next, nextDisk,   \* vibeldr-next.cfg
  queue, queueDisk, \* vibeldr-dsm-tasks
  todo,             \* repairs taken from the queue and not yet made
  now,              \* the repair whose database has just been copied
  db,               \* task -> its database: as DSM keeps it, or repaired
  bak, bakDisk,     \* task -> the .vibeldr-bak copy
  requested,        \* history: the agent has begun a request that no loader able
                    \* to put the file back has answered
  acked,            \* history: ... and reported it done
  told,             \* history: the repairs the rescue menu last said are queued
  owed              \* history: repairs asked for and not yet made

nextVars == <<next, nextDisk>>
queueVars == <<queue, queueDisk>>
dsmVars == <<todo, now, db, bak, bakDisk>>
history == <<requested, acked, told, owed>>
vars == <<stage, mount, nextVars, queueVars, dsmVars, history>>

Stages == {"off", "loading", "menu", "detach", "taken", "repair", "copied", "dsm", "writing"}
Copies == [Tasks -> {None, Torn, "user", "fixed"}]

TypeOK ==
  /\ stage \in Stages /\ mount \in {"rw", "ro", "none"}
  /\ next \in {"idle", "loader"} /\ nextDisk \in {"idle", "loader", Torn}
  /\ {queue, queueDisk, todo, told, owed} \subseteq SUBSET Tasks
  /\ now \in Tasks \cup {None}
  /\ db \in [Tasks -> {None, "user", "fixed"}]
  /\ bak \in Copies /\ bakDisk \in Copies
  /\ requested \in BOOLEAN /\ acked \in BOOLEAN

Init ==
  /\ stage = "off" /\ mount = "none"
  /\ next = "idle" /\ nextDisk = "idle"
  /\ queue = {} /\ queueDisk = {} /\ todo = {} /\ now = None
  /\ db \in [Tasks -> {None, "user"}]
  /\ bak = [t \in Tasks |-> None] /\ bakDisk = bak
  /\ requested = FALSE /\ acked = FALSE /\ told = {} /\ owed = {}

Goto(s) == stage' = s
-----------------------------------------------------------------------------
(* GRUB, and power.                                                        *)

\* The default entry.  A partly written script sets nothing: DSM boots.
GrubDefault ==
  /\ stage = "off"
  /\ Goto(IF nextDisk = "loader" THEN "loading" ELSE "detach")
  /\ UNCHANGED <<mount, nextVars, queueVars, dsmVars, history>>

\* The user picks "reconfigure" while GRUB waits.
GrubReconfigure ==
  /\ stage = "off" /\ Goto("loading")
  /\ UNCHANGED <<mount, nextVars, queueVars, dsmVars, history>>

\* What is left of a file when power goes before it was written back.
Remains(disk, cached, torn) == IF disk = cached THEN {disk} ELSE {disk, cached} \cup torn

PowerLoss ==
  /\ stage # "off" /\ Goto("off")
  /\ nextDisk' \in Remains(nextDisk, next, {Torn})
  /\ next' = IF nextDisk' = Torn THEN "idle" ELSE nextDisk'
  /\ queueDisk' \in Remains(queueDisk, queue, SUBSET queue)
  /\ queue' = queueDisk'
  /\ bakDisk' \in {c \in Copies : \A t \in Tasks : c[t] \in Remains(bakDisk[t], bak[t], {Torn})}
  /\ bak' = bakDisk'
  /\ todo' = {} /\ now' = None /\ told' = {}
  /\ UNCHANGED <<mount, db, requested, acked, owed>>
-----------------------------------------------------------------------------
(* The loader.                                                             *)

\* Mutant: the loader leaves the file as it is.
ResetForgotten(m) == UNCHANGED nextVars

\* resetNextBoot: only a partition mounted for writing is reached.  Mounted
\* read-only (or the disk not found in time) the write fails; not mounted at
\* all it goes to a file of the same name in the ramdisk.
Reset(m) ==
  IF m = "rw" THEN next' = "idle" /\ nextDisk' = "idle" ELSE UNCHANGED nextVars

StartLoader ==
  /\ stage = "loading" /\ Goto("menu")
  /\ mount' \in Mounts
  /\ Reset(mount')
  /\ requested' = (requested /\ mount' # "rw") /\ acked' = FALSE
  /\ told' = {}
  /\ UNCHANGED <<queueVars, dsmVars, owed>>

\* The rescue menu replaces the queue, without syncing it; choosing none
\* removes the file.
DsmFixMenu(chosen) ==
  /\ stage = "menu"
  /\ \/ /\ mount = "rw"
        /\ queue' = chosen /\ queueDisk' \in {queueDisk, queue}
        /\ told' = chosen /\ owed' = owed \cup chosen
     \/ /\ mount = "none"
        /\ told' = chosen
        /\ UNCHANGED <<queueVars, owed>>
  /\ UNCHANGED <<stage, mount, nextVars, dsmVars, requested, acked>>

\* Mutant: the loader resets the machine without syncAll.
LeaveLoaderAtOnce ==
  /\ stage = "menu"
  /\ queueDisk' \in Remains(queueDisk, queue, SUBSET queue) /\ queue' = queueDisk'
  /\ \/ Goto("off")
     \/ Goto("detach")
  /\ UNCHANGED <<mount, nextVars, dsmVars, history>>

\* syncAll, then a reset or a jump into DSM's kernel.
LeaveLoader ==
  /\ stage = "menu"
  /\ queueDisk' = queue
  /\ \/ Goto("off")
     \/ Goto("detach")
  /\ UNCHANGED <<mount, nextVars, queue, dsmVars, history>>
-----------------------------------------------------------------------------
(* The helper, in DSM's ramdisk, before DSM's init runs.                   *)

\* Nothing is queued; or the disk is not found, or not mounted, or the file
\* cannot be removed.
TakeNothing ==
  /\ stage = "detach" /\ Goto("dsm")
  /\ UNCHANGED <<mount, nextVars, queueVars, dsmVars, history>>

TakeRemoves ==
  /\ stage = "detach" /\ queue # {} /\ Goto("taken")
  /\ todo' = queue /\ queue' = {}
  /\ UNCHANGED <<mount, nextVars, queueDisk, now, db, bak, bakDisk, history>>

\* Mutant: the repairs start before the removal is known to be on the medium.
TakeSyncsLate ==
  /\ stage = "taken" /\ Goto("repair")
  /\ UNCHANGED <<mount, nextVars, queueVars, dsmVars, history>>

TakeSyncs ==
  /\ stage = "taken" /\ Goto("repair")
  /\ queueDisk' = queue /\ bakDisk' = bak
  /\ UNCHANGED <<mount, nextVars, queue, todo, now, db, bak, history>>

\* The database is not there, or the copy fails part way: nothing is changed.
RepairSkips(t) ==
  /\ stage = "repair" /\ t \in todo
  /\ \/ db[t] = None /\ UNCHANGED <<bak, bakDisk>>
     \/ /\ db[t] # None
        /\ bak' = [bak EXCEPT ![t] = Torn]
        /\ bakDisk' \in {bakDisk, bak'}
  /\ todo' = todo \ {t}
  /\ UNCHANGED <<stage, mount, nextVars, queueVars, now, db, history>>

\* Mutant: a failed copy does not stop the repair.
RepairCopiesAnyway(t) ==
  /\ stage = "repair" /\ t \in todo /\ db[t] # None
  /\ \/ bak' = [bak EXCEPT ![t] = db[t]]
     \/ bak' = [bak EXCEPT ![t] = Torn]
  /\ Goto("copied") /\ now' = t
  /\ UNCHANGED <<mount, nextVars, queueVars, todo, db, bakDisk, history>>

RepairCopies(t) ==
  /\ stage = "repair" /\ t \in todo /\ db[t] # None
  /\ bak' = [bak EXCEPT ![t] = db[t]]
  /\ Goto("copied") /\ now' = t
  /\ UNCHANGED <<mount, nextVars, queueVars, todo, db, bakDisk, history>>

\* sqlite3: one statement, committed and synced or not made at all.
RepairChanges(t) ==
  /\ stage = "copied" /\ now = t /\ Goto("repair") /\ now' = None
  /\ todo' = todo \ {t}
  /\ \/ db' = [db EXCEPT ![t] = "fixed"] /\ owed' = owed \ {t}
     \/ UNCHANGED <<db, owed>>
  /\ UNCHANGED <<mount, nextVars, queueVars, bak, bakDisk, requested, acked, told>>

RepairsDone ==
  /\ stage = "repair" /\ todo = {} /\ Goto("dsm")
  /\ UNCHANGED <<mount, nextVars, queueVars, dsmVars, history>>
-----------------------------------------------------------------------------
(* DSM.                                                                    *)

\* Addresses are blocked again, the user turns a task on again.
DsmChanges(t) ==
  /\ stage = "dsm" /\ db[t] # "user"
  /\ db' = [db EXCEPT ![t] = "user"]
  /\ UNCHANGED <<stage, mount, nextVars, queueVars, todo, now, bak, bakDisk, history>>

\* vibeldr-agent -next-boot-loader: os.WriteFile, then sync.
NextBootWrites ==
  /\ stage = "dsm" /\ Goto("writing")
  /\ next' = "loader" /\ requested' = TRUE
  /\ UNCHANGED <<mount, nextDisk, queueVars, dsmVars, acked, told, owed>>

\* Mutant: the agent reports success without a sync.
NextBootNoSync ==
  /\ stage = "writing" /\ Goto("dsm")
  /\ acked' = TRUE
  /\ UNCHANGED <<mount, nextVars, queueVars, dsmVars, requested, told, owed>>

NextBootSyncs ==
  /\ stage = "writing" /\ Goto("dsm")
  /\ nextDisk' = next /\ bakDisk' = bak
  /\ acked' = TRUE
  /\ UNCHANGED <<mount, next, queueVars, todo, now, db, bak, requested, told, owed>>

DsmReboots ==
  /\ stage = "dsm" /\ Goto("off")
  /\ bakDisk' = bak
  /\ told' = {}
  /\ UNCHANGED <<mount, nextVars, queueVars, todo, now, db, bak, requested, acked, owed>>
-----------------------------------------------------------------------------
Machine == GrubDefault \/ GrubReconfigure \/ PowerLoss
Loader == StartLoader \/ (\E chosen \in SUBSET Tasks : DsmFixMenu(chosen)) \/ LeaveLoader
Repairs ==
  \/ TakeNothing \/ TakeRemoves \/ TakeSyncs \/ RepairsDone
  \/ \E t \in Tasks : RepairSkips(t) \/ RepairCopies(t) \/ RepairChanges(t)
Dsm == (\E t \in Tasks : DsmChanges(t)) \/ NextBootWrites \/ NextBootSyncs \/ DsmReboots

Next == Machine \/ Loader \/ Repairs \/ Dsm

Spec == Init /\ [][Next]_vars
-----------------------------------------------------------------------------
(* Properties.                                                             *)

\* A repair is made at most once for each time it is queued, whatever crash
\* falls between taking the queue and making its repairs (dsmtasks_linux.go:
\* the file is removed before anything is changed, so a repair that goes wrong
\* is not tried again on every boot).
Repaired(t) == stage = "copied" /\ now = t /\ db'[t] = "fixed"
RepairedOnce == [][\A t \in Tasks : Repaired(t) => t \in owed /\ t \notin queueDisk]_vars

\* A database is changed only with a whole copy of what it held beside it.
ChangedWithCopy == [][\A t \in Tasks : Repaired(t) => bak[t] = db[t]]_vars

\* dsmtasks_linux.go: what a repair does to DSM's database is asked for once and
\* can be taken back, at whatever step the power went.
RepairsHold == RepairedOnce /\ ChangedWithCopy

\* Once the agent has reported a request done, the next boot of the default
\* entry opens the loader, across power loss (nextBootLoader syncs first).
AckedOpensLoader == [][stage = "off" /\ acked /\ stage' # "off" => stage' = "loading"]_vars

\* The default entry opens the loader only for a request that no loader with
\* partition 1 mounted for writing has answered: such a request counts for one
\* boot (synoboot.go, NextBootFile).  One that a read-only partition keeps from
\* being put back counts until it can be.
Countdown == stage = "off" /\ nextDisk = "loader" /\ stage' = "loading"
NextBootCountsOnce == [][Countdown => requested]_vars

\* nextboot_linux.go, synoboot.go: a request opens the loader on the next boot
\* and, once answered, on no later one.
RequestsCount == AckedOpensLoader /\ NextBootCountsOnce

\* What the rescue menu reported as queued is on the medium once the loader
\* has been left in an orderly way, as long as partition 1 was mounted: without
\* it the menu reports a file in the ramdisk.
QueuedIsKept == stage = "off" /\ mount # "none" => told \subseteq queueDisk

=============================================================================
