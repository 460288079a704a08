------------------------------ MODULE Hotplug ------------------------------
(***************************************************************************)
(* The agent udev runs in DSM for every USB interface that appears         *)
(* (cmd/vibeldr-init/hotplug_linux.go, runHotplug): it gives a driver      *)
(* already in the kernel three seconds, then reads the driver pack off the *)
(* loader's partition 4 through a device node it makes, and loads what the *)
(* interface's alias needs.  A device with several interfaces starts       *)
(* several agents at once; they share one lock file, one node, the         *)
(* kernel's modules.                                                       *)
(***************************************************************************)
EXTENDS Naturals, Sequences, SequencesExt

CONSTANTS
  Interfaces,  \* USB interfaces; each is plugged in once, and has one agent
  Chain,       \* interface -> the pack's modules for it, in load order
  Free         \* the lock is not held

Modules == UNION {ToSet(Chain[i]) : i \in Interfaces}

ASSUME HotplugAssumption ==
  /\ Chain \in [Interfaces -> Seq(Modules)]
  /\ \A i \in Interfaces : \A p, q \in DOMAIN Chain[i] :
       Chain[i][p] = Chain[i][q] => p = q   \* seen, in ResolvePreferring
  /\ Free \notin Interfaces

VARIABLES
  pc,       \* interface -> where its agent is
  lock,     \* the agent holding the flock on hotplugLock
  node,     \* packDevice exists
  order,    \* interface -> places in its chain its agent has yet to come to
  loaded,   \* /proc/modules
  present,  \* interfaces plugged in
  bound,    \* interfaces with a driver
  harmed    \* history: agents that were killed, could not read the pack or
            \* were refused a module

vars == <<pc, lock, node, order, loaded, present, bound, harmed>>

Places == {"none", "wait", "lock", "check", "node", "read", "load", "remove",
           "unlock", "done"}

TypeOK ==
  /\ pc \in [Interfaces -> Places]
  /\ lock \in Interfaces \cup {Free}
  /\ node \in BOOLEAN
  /\ order \in [Interfaces -> SUBSET Nat]
  /\ \A i \in Interfaces : order[i] \subseteq DOMAIN Chain[i]
  /\ loaded \subseteq Modules
  /\ present \subseteq Interfaces /\ bound \subseteq present
  /\ harmed \subseteq Interfaces

Init ==
  /\ pc = [i \in Interfaces |-> "none"] /\ lock = Free /\ node = FALSE
  /\ order = [i \in Interfaces |-> {}]
  /\ loaded = {} /\ present = {} /\ bound = {} /\ harmed = {}

At(i, from, to) == pc[i] = from /\ pc' = [pc EXCEPT ![i] = to]
-----------------------------------------------------------------------------
(* Devices and the kernel.                                                 *)

HasDriver(i) == Chain[i] # <<>> /\ Last(Chain[i]) \in loaded

\* The uevent for a new interface starts its agent.
Plug(i) ==
  /\ i \notin present /\ At(i, "none", "wait")
  /\ present' = present \cup {i}
  /\ UNCHANGED <<lock, node, order, loaded, bound, harmed>>

Unplug(i) ==
  /\ i \in present
  /\ present' = present \ {i} /\ bound' = bound \ {i}
  /\ UNCHANGED <<pc, lock, node, order, loaded, harmed>>

\* A loaded driver takes the interface, in its own time.
Bind(i) ==
  /\ i \in present \ bound /\ HasDriver(i)
  /\ bound' = bound \cup {i}
  /\ UNCHANGED <<pc, lock, node, order, loaded, present, harmed>>
-----------------------------------------------------------------------------
(* One agent.                                                              *)

\* waitForPath: a driver turned up, or three seconds went by.
WaitEnds(i) ==
  /\ \/ i \in bound /\ At(i, "wait", "done")
     \/ i \notin bound /\ At(i, "wait", "lock")
  /\ UNCHANGED <<lock, node, order, loaded, present, bound, harmed>>

Lock(i) ==
  /\ lock = Free /\ At(i, "lock", "check") /\ lock' = i
  /\ UNCHANGED <<node, order, loaded, present, bound, harmed>>

\* Mutant: an agent that fails returns without giving the lock back.
CheckForgetsLock(i) ==
  /\ \/ i \in bound /\ At(i, "check", "done")
     \/ i \notin bound /\ At(i, "check", "node")
  /\ UNCHANGED <<lock, node, order, loaded, present, bound, harmed>>

\* Another agent may have loaded the driver while this one waited.
Check(i) ==
  /\ \/ i \in bound /\ At(i, "check", "unlock")
     \/ i \notin bound /\ At(i, "check", "node")
  /\ UNCHANGED <<lock, node, order, loaded, present, bound, harmed>>

\* partitionNodeOf takes away what an earlier agent left and makes the node
\* anew; the disk or its partition may not be there.
MakeNode(i) ==
  /\ \/ At(i, "node", "read") /\ node' = TRUE /\ UNCHANGED harmed
     \/ At(i, "node", "unlock") /\ UNCHANGED node /\ harmed' = harmed \cup {i}
  /\ UNCHANGED <<lock, order, loaded, present, bound>>

\* Mutant: what is loaded already is not taken out of the list.
MissingAtStart(i) == DOMAIN Chain[i]

\* ResolvePreferring: what the alias needs and is not in yet.
Missing(i) == {p \in DOMAIN Chain[i] : Chain[i][p] \notin loaded}

\* readPack, and what it gives for the alias.
ReadPack(i) ==
  /\ \/ /\ node /\ At(i, "read", "load")
        /\ order' = [order EXCEPT ![i] = Missing(i)] /\ UNCHANGED harmed
     \/ /\ At(i, "read", "remove")
        /\ harmed' = harmed \cup {i} /\ UNCHANGED order
  /\ UNCHANGED <<lock, node, loaded, present, bound>>

\* A module the kernel refuses is noted, and the next one tried.
LoadOne(i, p) ==
  /\ pc[i] = "load" /\ p \in order[i] /\ \A q \in order[i] : p <= q
  /\ order' = [order EXCEPT ![i] = @ \ {p}]
  /\ \/ loaded' = loaded \cup {Chain[i][p]} /\ UNCHANGED harmed
     \/ harmed' = harmed \cup {i} /\ UNCHANGED loaded
  /\ UNCHANGED <<pc, lock, node, present, bound>>

Load(i) == \E p \in order[i] : LoadOne(i, p)

\* Mutant: the lock is given up before the node is removed.
LoadEndsUnlocks(i) ==
  /\ order[i] = {} /\ At(i, "load", "remove") /\ lock' = Free
  /\ UNCHANGED <<node, order, loaded, present, bound, harmed>>

LoadEnds(i) ==
  /\ order[i] = {} /\ At(i, "load", "remove")
  /\ UNCHANGED <<lock, node, order, loaded, present, bound, harmed>>

\* The deferred calls, last one first: the node goes before the lock.
RemoveNode(i) ==
  /\ At(i, "remove", "unlock") /\ node' = FALSE
  /\ UNCHANGED <<lock, order, loaded, present, bound, harmed>>

Unlock(i) ==
  /\ At(i, "unlock", "done") /\ lock' = Free
  /\ UNCHANGED <<node, order, loaded, present, bound, harmed>>

\* udev ends an event's program that runs too long.  The lock goes with it,
\* the node stays.
Kill(i) ==
  /\ pc[i] \notin {"none", "done"} /\ harmed' = harmed \cup {i}
  /\ pc' = [pc EXCEPT ![i] = "done"]
  /\ lock' = IF lock = i THEN Free ELSE lock
  /\ order' = [order EXCEPT ![i] = {}]
  /\ UNCHANGED <<node, loaded, present, bound>>
-----------------------------------------------------------------------------
Agent(i) ==
  \/ WaitEnds(i) \/ Lock(i) \/ Check(i) \/ MakeNode(i) \/ ReadPack(i)
  \/ Load(i) \/ LoadEnds(i) \/ RemoveNode(i) \/ Unlock(i)

Next == \E i \in Interfaces : Agent(i) \/ Plug(i) \/ Unplug(i) \/ Bind(i) \/ Kill(i)

Spec == Init /\ [][Next]_vars

\* The scheduler runs every agent and the kernel probes every device; flock
\* lets a waiter in once the others, one for each interface, are through.
FairSpec == Spec /\ \A i \in Interfaces : WF_vars(Agent(i)) /\ WF_vars(Bind(i))
-----------------------------------------------------------------------------
\* An agent about to read the pack finds the node it made: no other agent has
\* removed it, at its own end or before making one.
NodeThere == \A i \in Interfaces : pc[i] = "read" => node

\* No module is handed to the kernel twice, however many interfaces ask for
\* it at once: the kernel is asked what is loaded under the lock.
NoDoubleLoad ==
  [][\A i \in Interfaces : \A p \in order[i] :
       LoadOne(i, p) => Chain[i][p] \notin loaded]_vars

\* hotplug_linux.go: agents running at once do not spoil each other's work.
AgentsApart == [](TypeOK /\ NodeThere) /\ NoDoubleLoad

\* Every interface whose driver the pack has gets it, or is unplugged, unless
\* something befell its own agent: what befalls the others does not matter.
Served ==
  \A i \in Interfaces :
    (i \in present /\ Chain[i] # <<>>) ~> (i \in bound \/ i \notin present \/ i \in harmed)
=============================================================================
