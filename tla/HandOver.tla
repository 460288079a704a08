------------------------------ MODULE HandOver ------------------------------
(***************************************************************************)
(* What vibeldr-init leaves in the installed system at every boot: the     *)
(* agent, the notification settings and queue, the udev rules and the      *)
(* loader disk's name, written at the pivot (installAgent) from what the   *)
(* ramdisk stage found out, and what the agent then makes of it in DSM.    *)
(* The ramdisk starts empty at every boot; the system partition does not.  *)
(***************************************************************************)
EXTENDS Naturals, Sequences

CONSTANTS
  Disks,     \* the names the kernel may give the loader's disk
  Settings,  \* notification settings a build may carry
  NoValue, TornValue,
  MaxBoots   \* bound on the boots

ASSUME HandOverAssumption ==
  /\ NoValue \notin Disks \cup Settings /\ TornValue \notin Disks \cup Settings /\ NoValue # TornValue
  /\ MaxBoots \in Nat

VARIABLES
  pc, boot,
  disk,       \* what the kernel calls the loader's disk in this boot
  \* the ramdisk
  bootDisk,   \* bootDiskFile
  settings,   \* notifyRamdiskConfig
  ramQueue,      \* notifyRamdiskQueue
  \* the installed system
  agent,      \* dsmAgentName: "none" | "torn" | "whole"
  unit,       \* the agent's service is enabled
  dsmSettings, dsmQueue,  \* notifyDSMConfig, notifyDSMQueue
  rule,       \* the disk that synobootRuleFile names
  hotplug,    \* hotplugRule is there
  dsmDisk,    \* dsmBootDisk
  \* the agent's run in DSM
  toSend,     \* what it read from the queue
  cut,        \* history: a write of this boot to the system partition failed
  \* outside
  sent,       \* the notifications that arrived
  asked       \* the disk that NextBootFile was written to in this boot
ram == <<bootDisk, settings, ramQueue>>
system == <<agent, unit, dsmSettings, dsmQueue, rule, hotplug, dsmDisk>>
handOverVars == <<pc, boot, disk, ram, system, toSend, cut, sent, asked>>

\* An error event carries the stage it came from, "drivers" or "boot_device".
Event(name) == [boot |-> boot, name |-> name]
Queued(name) == IF settings = NoValue THEN ramQueue ELSE Append(ramQueue, Event(name))

\* os.WriteFile on the system partition: done, or failed with the old content
\* kept or cut short.
Write(old, new, torn) ==
  {[ok |-> TRUE, is |-> new]} \cup {[ok |-> FALSE, is |-> x] : x \in {old} \cup torn}
Went(w) == cut' = (cut \/ ~w.ok)

HandOverInit ==
  /\ pc = "off" /\ boot = 0 /\ disk \in Disks
  /\ bootDisk = NoValue /\ settings = NoValue /\ ramQueue = <<>>
  /\ agent = "none" /\ unit = FALSE /\ dsmSettings = NoValue /\ dsmQueue = <<>>
  /\ rule = NoValue /\ hotplug = FALSE /\ dsmDisk = NoValue
  /\ toSend = <<>> /\ cut = FALSE /\ sent = <<>> /\ asked = NoValue
-----------------------------------------------------------------------------
(* The ramdisk stage (main)                                                *)

\* The machine starts with any build of the loader and its disk under any name.
PowerOn ==
  /\ pc = "off" /\ boot < MaxBoots
  /\ boot' = boot + 1
  /\ disk' \in Disks /\ settings' \in Settings \cup {NoValue}
  /\ bootDisk' = NoValue
  /\ ramQueue' = IF settings' = NoValue THEN <<>> ELSE <<[boot |-> boot', name |-> "boot_started"]>>
  /\ asked' = NoValue /\ toSend' = <<>> /\ cut' = FALSE
  /\ pc' = "drivers"
  /\ UNCHANGED <<system, sent>>

\* loadDrivers fails, and that is queued; or it does not.
Drivers ==
  /\ pc = "drivers" /\ pc' = "device"
  /\ ramQueue' \in {ramQueue, Queued("drivers")}
  /\ UNCHANGED <<boot, disk, bootDisk, settings, system, toSend, sent, asked, cut>>

\* makeBootDevice: the loader's disk is found, and its name kept, or it is not.
Device ==
  /\ pc = "device" /\ pc' = "agent"
  /\ \/ bootDisk' \in {disk, NoValue} /\ ramQueue' = ramQueue
     \/ bootDisk' = NoValue /\ ramQueue' = Queued("boot_device")
  /\ UNCHANGED <<boot, disk, settings, system, toSend, sent, asked, cut>>
-----------------------------------------------------------------------------
(* The pivot (installAgent)                                                *)

\* Without a whole agent nothing that follows is written.
WriteAgent ==
  /\ pc = "agent"
  /\ \E w \in Write(agent, "whole", {"torn"}) :
       agent' = w.is /\ Went(w) /\ pc' = IF w.ok THEN "unit" ELSE "dsm"
  /\ UNCHANGED <<boot, disk, ram, unit, dsmSettings, dsmQueue, rule, hotplug, dsmDisk, toSend, sent, asked>>

\* Nor without its service: a unit cut short, or a link removed and not made.
Enable ==
  /\ pc = "unit"
  /\ \E w \in Write(unit, TRUE, {FALSE}) :
       unit' = w.is /\ Went(w) /\ pc' = IF w.ok THEN "settings" ELSE "dsm"
  /\ UNCHANGED <<boot, disk, ram, agent, dsmSettings, dsmQueue, rule, hotplug, dsmDisk, toSend, sent, asked>>

\* copyNotify: the settings; without the directory the queue is not tried.
CopySettings ==
  /\ pc = "settings"
  /\ IF settings = NoValue
     THEN dsmSettings' = NoValue /\ UNCHANGED cut /\ pc' = "queue"
     ELSE \E w \in Write(dsmSettings, settings, {TornValue}) :
            dsmSettings' = w.is /\ Went(w) /\ pc' \in IF w.ok THEN {"queue"} ELSE {"queue", "rule"}
  /\ UNCHANGED <<boot, disk, ram, agent, unit, dsmQueue, rule, hotplug, dsmDisk, toSend, sent, asked>>

\* Mutant: a queue of an earlier boot is kept and added to.
CopyQueueAppends ==
  /\ pc = "queue" /\ pc' = "rule"
  /\ dsmQueue' = dsmQueue \o ramQueue
  /\ UNCHANGED <<boot, disk, ram, agent, unit, dsmSettings, rule, hotplug, dsmDisk, toSend, sent, asked, cut>>

\* copyNotify: the queue.
CopyQueue ==
  /\ pc = "queue" /\ pc' = "rule"
  /\ IF ramQueue = <<>>
     THEN dsmQueue' = <<>> /\ UNCHANGED cut
     ELSE \E w \in Write(dsmQueue, ramQueue, {SubSeq(ramQueue, 1, n) : n \in 0..Len(ramQueue) - 1}) :
            dsmQueue' = w.is /\ Went(w)
  /\ UNCHANGED <<boot, disk, ram, agent, unit, dsmSettings, rule, hotplug, dsmDisk, toSend, sent, asked>>

\* installSynobootRule
WriteRule ==
  /\ pc = "rule" /\ pc' = "hotplug"
  /\ IF bootDisk = NoValue
     THEN rule' = NoValue /\ UNCHANGED cut
     ELSE \E w \in Write(rule, bootDisk, {NoValue}) : rule' = w.is /\ Went(w)
  /\ UNCHANGED <<boot, disk, ram, agent, unit, dsmSettings, dsmQueue, hotplug, dsmDisk, toSend, sent, asked>>

\* Mutant: the rule of an earlier boot stays when the disk is not known.
HotplugStays ==
  /\ pc = "hotplug" /\ pc' = "dsm"
  /\ IF bootDisk = NoValue
     THEN UNCHANGED <<hotplug, dsmDisk>>
     ELSE hotplug' = TRUE /\ dsmDisk' = bootDisk
  /\ UNCHANGED <<boot, disk, ram, agent, unit, dsmSettings, dsmQueue, rule, toSend, sent, asked, cut>>

\* installHotplug: the disk's name, then the rule that has it read.
Hotplug ==
  /\ pc = "hotplug" /\ pc' = "dsm"
  /\ IF bootDisk = NoValue
     THEN hotplug' = FALSE /\ UNCHANGED <<dsmDisk, cut>>
     ELSE \E w \in Write(dsmDisk, bootDisk, {TornValue}) :
            /\ dsmDisk' = w.is
            /\ IF w.ok THEN \E h \in Write(hotplug, TRUE, {FALSE}) : hotplug' = h.is /\ Went(h)
                       ELSE Went(w) /\ UNCHANGED hotplug
  /\ UNCHANGED <<boot, disk, ram, agent, unit, dsmSettings, dsmQueue, rule, toSend, sent, asked>>
-----------------------------------------------------------------------------
(* Inside DSM                                                              *)

\* systemd starts the agent (runAgent), if there is one.
Start ==
  /\ pc = "dsm"
  /\ pc' = IF unit /\ agent = "whole" THEN "read" ELSE "up"
  /\ UNCHANGED <<boot, disk, ram, system, toSend, sent, asked, cut>>

\* sendQueuedNotify: the queue is read and removed, then the settings are read.
TakeQueue ==
  /\ pc = "read" /\ pc' = "send"
  /\ dsmQueue' = <<>>
  /\ toSend' = IF dsmSettings \in Settings THEN dsmQueue ELSE <<>>
  /\ UNCHANGED <<boot, disk, ram, agent, unit, dsmSettings, rule, hotplug, dsmDisk, sent, asked, cut>>

\* A queued event is tried once: it arrives or it is lost.
Send ==
  /\ pc = "send" /\ toSend # <<>>
  /\ sent' \in {sent, Append(sent, Head(toSend))}
  /\ toSend' = Tail(toSend)
  /\ UNCHANGED <<pc, boot, disk, ram, system, asked, cut>>

\* notify: dsm_up, when the storage service and the queue are behind it.
SendUp ==
  /\ pc = "send" /\ toSend = <<>> /\ pc' = "up"
  /\ sent' \in {sent} \cup (IF dsmSettings \in Settings THEN {Append(sent, Event("dsm_up"))} ELSE {})
  /\ UNCHANGED <<boot, disk, ram, system, toSend, asked, cut>>

\* nextBootLoader: the recorded disk, or the one with the loader's label.
AskLoader ==
  /\ pc = "up" /\ asked = NoValue /\ agent = "whole"
  /\ asked' = IF dsmDisk \in Disks THEN dsmDisk ELSE disk
  /\ UNCHANGED <<pc, boot, disk, ram, system, toSend, sent, cut>>

\* The power goes, or the machine is restarted, at any moment.
Off ==
  /\ pc # "off" /\ pc' = "off"
  /\ UNCHANGED <<boot, disk, ram, system, toSend, sent, asked, cut>>

\* DSM is installed again.
Reinstall ==
  /\ pc = "off" /\ agent # "none"
  /\ agent' = "none" /\ unit' = FALSE /\ dsmSettings' = NoValue /\ dsmQueue' = <<>>
  /\ rule' = NoValue /\ hotplug' = FALSE /\ dsmDisk' = NoValue
  /\ UNCHANGED <<pc, boot, disk, ram, toSend, sent, asked, cut>>

HandOverNext ==
  \/ PowerOn \/ Drivers \/ Device
  \/ WriteAgent \/ Enable \/ CopySettings \/ CopyQueue \/ WriteRule \/ Hotplug
  \/ Start \/ TakeQueue \/ Send \/ SendUp \/ AskLoader
  \/ Off \/ Reinstall
HandOverSpec == HandOverInit /\ [][HandOverNext]_handOverVars
-----------------------------------------------------------------------------
Running == pc \in {"dsm", "read", "send", "up"}
Names == {"boot_started", "drivers", "boot_device", "dsm_up"}
Events == [boot : 1..MaxBoots, name : Names]

HandOverTypeOK ==
  /\ pc \in {"off", "drivers", "device", "agent", "unit", "settings", "queue", "rule", "hotplug",
             "dsm", "read", "send", "up"}
  /\ boot \in 0..MaxBoots /\ disk \in Disks
  /\ bootDisk \in Disks \cup {NoValue} /\ settings \in Settings \cup {NoValue}
  /\ agent \in {"none", "torn", "whole"} /\ unit \in BOOLEAN
  /\ dsmSettings \in Settings \cup {NoValue, TornValue} /\ rule \in Disks \cup {NoValue}
  /\ hotplug \in BOOLEAN /\ dsmDisk \in Disks \cup {NoValue, TornValue}
  /\ ramQueue \in Seq(Events) /\ dsmQueue \in Seq(Events) /\ toSend \in Seq(Events) /\ sent \in Seq(Events)
  /\ cut \in BOOLEAN /\ asked \in Disks \cup {NoValue}

\* bootdisk.go, hotplug_linux.go: unless a write of this boot failed, a running
\* DSM takes no disk for the loader's but the one that is it in this boot, never
\* one that had its name before: neither the udev rule that marks it, nor the
\* agent that reads the pack from it.
KnowsLoader == Running /\ ~cut => rule \in {disk, NoValue} /\ (hotplug => dsmDisk = disk)

\* notify.go: what arrives is of the boot it arrives in, and only with settings
\* in the build that booted, unless a write left an earlier boot's queue.
EventsOfThisBoot ==
  [][~cut => \A i \in DOMAIN sent' \ DOMAIN sent : sent'[i].boot = boot /\ settings # NoValue]_handOverVars

\* notify.go: the events of a boot arrive in the order they happened, the
\* queued ones ahead of dsm_up, and none of them twice, whatever is lost, full
\* or cut off.
Rank(name) ==
  CASE name = "boot_started" -> 1 [] name = "drivers" -> 2 [] name = "boot_device" -> 3 [] name = "dsm_up" -> 4
SentOnceInOrder ==
  \A i, j \in DOMAIN sent : i < j =>
    \/ sent[i].boot < sent[j].boot
    \/ sent[i].boot = sent[j].boot /\ Rank(sent[i].name) < Rank(sent[j].name)

\* notify.go: of what happened in the boots, a receiver learns each event at most
\* once, in its order, and in its own boot.
EventsTold == []SentOnceInOrder /\ EventsOfThisBoot
=============================================================================
