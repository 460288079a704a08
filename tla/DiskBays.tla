------------------------------ MODULE DiskBays ------------------------------
(***************************************************************************)
(* Which disk is in which bay.  The wizard's storage page keeps the ports  *)
(* in bay order.  A device-tree model takes that order along as a plan and *)
(* points the bays of its trees at ports, the ramdisk's tree anew at every *)
(* boot and the installed system's over what it holds.  Another model gets *)
(* SataPortMap and DiskIdxMap, a port count and a first disk number per    *)
(* controller.  Disks come and go while the machine is off.                *)
(***************************************************************************)
EXTENDS Naturals, SequencesExt, FiniteSetsExt, Lists

CONSTANTS
  Controllers, \* a sequence of [name, ports, sata], by address
  AtaOrder,    \* the same controllers as DSM's kernel numbers them
  Plugged,     \* what may be plugged in: pairs of ports with a disk and the loader's port
  Models,      \* records [dt, bays]
  USB,         \* a loader that is on no port
  Blank,       \* "", an empty bay
  Own,         \* the appliance's address in a device tree
  None

Ports == UNION {{[on |-> c, index |-> i - 1] : i \in 1..c.ports} : c \in ToSet(Controllers)}
SataPorts == {p \in Ports : p.on.sata}

ASSUME DiskBaysAssumption ==
  /\ Controllers \in Seq(ToSet(Controllers)) /\ AtaOrder \in Seq(ToSet(Controllers))
  /\ IsInjective(AtaOrder) /\ ToSet(AtaOrder) = ToSet(Controllers)
  /\ \A c, d \in ToSet(Controllers) : c.name = d.name => c = d
  /\ \A c \in ToSet(Controllers) : c.ports \in 1..9
  /\ \A m \in Models : m.dt \in BOOLEAN /\ m.bays \in Nat \ {0}
  /\ \A now \in Plugged : now \in (SUBSET Ports) \X (Ports \cup {USB}) /\ now[2] \notin now[1]
  /\ Blank \notin Ports /\ Own \notin Ports \cup {USB}

VARIABLES
  phase,     \* "off", "page", "mapped" (the ramdisk stage is through), "running"
  disks,     \* the ports that have a disk, the loader's aside
  loader,    \* the loader's port, or USB
  model,
  order,     \* Storage.BayOrder
  map,       \* SataPortMap and DiskIdxMap of the build
  ports,     \* portsFile in the ramdisk
  ram,       \* the ramdisk's tree: the port of each bay
  installed  \* the installed DSM's model and tree
vars == <<phase, disks, loader, model, order, map, ports, ram, installed>>

Busy(has) == {p.on : p \in has}
TreeOf(m) == [b \in 1..m.bays |-> Own]
Lesser(x, y) == IF x < y THEN x ELSE y

\* By the controllers' addresses, and on one controller by number.
Address == [c \in ToSet(Controllers) |-> CHOOSE i \in DOMAIN Controllers : Controllers[i] = c]
Sooner(p, q) == Address[p.on] < Address[q.on] \/ (p.on = q.on /\ p.index < q.index)
AllPorts == Tuple(Listed(Ports, {pq \in Ports \X Ports : Sooner(pq[1], pq[2])}))

\* Mutant: port by port.
OrderByPort(has) == Within(AllPorts, has) \o Within(AllPorts, Ports \ has)

\* Controllers with a disk come first.
OrderForBays(has) ==
  LET busy == {p \in Ports : p.on \in Busy(has)}
  IN Within(AllPorts, busy) \o Within(AllPorts, Ports \ busy)
-----------------------------------------------------------------------------
(* The storage page                                                        *)

Candidates(has, boot, m) ==
  Within(OrderForBays(has \cup ({boot} \cap Ports)), {p \in has : m.dt => p.on.sata})
DefaultBayOrder(cand, bays) == SubSeq(cand, 1, Lesser(Len(cand), bays))
Drawn(list, has, boot, m) ==
  IF list = <<>> THEN DefaultBayOrder(Candidates(has, boot, m), m.bays) ELSE list

BayOrderSized == [b \in 1..model.bays |-> IF b <= Len(order) THEN order[b] ELSE Blank]

\* Mutant: the empty bays at the end stay.
SetBayPortLong(bay, port) ==
  [b \in 1..model.bays |-> IF b = bay THEN port
                           ELSE IF BayOrderSized[b] = port THEN Blank ELSE BayOrderSized[b]]

\* A port in a bay, and in no other; empty bays at the end are cut.
SetBayPort(bay, port) ==
  LET set == [b \in 1..model.bays |->
                IF b = bay THEN port
                ELSE IF BayOrderSized[b] = port THEN Blank ELSE BayOrderSized[b]]
      filled == {b \in 1..model.bays : set[b] # Blank}
  IN IF filled = {} THEN <<>> ELSE SubSeq(set, 1, Max(filled))
-----------------------------------------------------------------------------
(* SataPortMap and DiskIdxMap (portMapFor)                                 *)

Sata == Tuple(Within(AtaOrder, {c \in ToSet(AtaOrder) : c.sata}))
PlacedOn(c) == {b \in 1..Len(order) : order[b] # Blank /\ order[b].on = c}

\* Mutant: the bay number is taken for the first index.
FirstIndexOfBay(c) ==
  LET p == Min({order[b].index : b \in PlacedOn(c)})
      b == CHOOSE n \in PlacedOn(c) : order[n].index = p
  IN IF b > p THEN b - p ELSE 0

\* Where c has to start for its first placed port to be in its bay.
FirstIndex(c) ==
  LET p == Min({order[b].index : b \in PlacedOn(c)})
      b == CHOOSE n \in PlacedOn(c) : order[n].index = p
  IN IF b > p THEN b - 1 - p ELSE 0

Span(at, c) == at..at + c.ports - 1

Assigned == {i \in 1..Len(Sata) : PlacedOn(Sata[i]) # {}}
Taken == UNION {Span(FirstIndex(Sata[i]), Sata[i]) : i \in Assigned}
Lowest(c, used) == Min({s \in 0..Max({0} \cup used) + 1 : Span(s, c) \cap used = {}})

\* The other controllers take, in turn, the first place that is free for all
\* their ports.
Starts[i \in 1..Len(Sata)] ==
  IF i \in Assigned THEN FirstIndex(Sata[i])
  ELSE Lowest(Sata[i], Taken \cup UNION {Span(Starts[j], Sata[j]) : j \in (1..i - 1) \ Assigned})

\* The ports that the i-th shows: not past the last bay, nor into the disks of
\* an assigned controller further on.
ShownPorts(i, start) ==
  IF start[i] >= model.bays THEN 0
  ELSE Min({Sata[i].ports, model.bays - start[i]} \cup
           {start[j] - start[i] : j \in {k \in Assigned : start[k] > start[i]}})

\* No controller is left out in the middle, and the first shows one at least.
PortMapFor ==
  LET start == Tuple(Starts)
      count == Tuple([i \in 1..Len(Sata) |-> ShownPorts(i, start)])
      shown == {i \in 1..Len(Sata) : count[i] > 0}
  IN IF Sata = <<>> THEN <<>>
     ELSE IF shown = {} THEN <<[n |-> 1, at |-> 0]>>
     ELSE [i \in 1..Max(shown) |->
             [n |-> IF i = 1 /\ count[1] = 0 THEN 1 ELSE count[i], at |-> start[i]]]
-----------------------------------------------------------------------------
(* The device trees                                                        *)

RenderBayPlan == Within(order, Ports)

\* Mutant: the loader's port is a bay like any other.
FoundAll(has, boot) == Within(OrderForBays(has), SataPorts)

\* SATA ports without the loader's (ExcludePort, bayOrder).
Found(has, boot) == Within(OrderForBays(has), SataPorts \ {boot})

\* Mutant: the planned ports, as they were found.
ApplyBayPlanFiltered(plan, found) ==
  IF plan = <<>> THEN found ELSE Within(found, ToSet(plan))

ApplyBayPlan(plan, found) ==
  IF plan = <<>> THEN found ELSE Within(plan, ToSet(found))

PortsFor(has, boot) == ApplyBayPlan(RenderBayPlan, Found(has, boot))

\* Bays past the last port keep what they had.
ApplySATAPorts(tree, list) ==
  [b \in DOMAIN tree |-> IF b <= Len(list) THEN list[b] ELSE tree[b]]
-----------------------------------------------------------------------------
\* What is plugged in when the machine is switched on.
Machine ==
  \E now \in Plugged : disks' = now[1] /\ loader' = now[2]

SwitchedOff == phase' = "off" /\ disks' = {} /\ loader' = USB /\ ports' = <<>> /\ ram' = <<>>

Init ==
  /\ phase = "off" /\ disks = {} /\ loader = USB
  /\ model \in Models /\ order = <<>> /\ map = None
  /\ ports = <<>> /\ ram = <<>> /\ installed = None

\* The wizard, with any model, up to its storage page.
Start ==
  /\ phase = "off" /\ phase' = "page"
  /\ Machine /\ model' \in Models
  /\ order' = Drawn(order, disks', loader', model')
  /\ UNCHANGED <<map, ports, ram, installed>>

\* A bay is emptied, or gets a candidate that no other bay has.
ChoosePort ==
  /\ phase = "page"
  /\ \E bay \in 1..model.bays, port \in {Blank} \cup ToSet(Candidates(disks, loader, model)) :
       /\ port = Blank \/ \A b \in 1..model.bays : BayOrderSized[b] = port => b = bay
       /\ order' = Drawn(SetBayPort(bay, port), disks, loader, model)
  /\ UNCHANGED <<phase, disks, loader, model, map, ports, ram, installed>>

\* validateStorage, and the build; without the wizard, nothing may be placed.
Build ==
  /\ \/ phase = "page" /\ RenderBayPlan # <<>>
     \/ phase = "off" /\ order = <<>>
  /\ SwitchedOff
  /\ map' = IF model.dt THEN <<>> ELSE PortMapFor
  /\ UNCHANGED <<model, order, installed>>

\* mapDiskBays; without a port left the tree stays as it is and nothing is
\* saved for the pivot.
Boot ==
  /\ phase = "off" /\ map # None /\ phase' = "mapped"
  /\ Machine
  /\ ports' = IF model.dt THEN PortsFor(disks', loader') ELSE <<>>
  /\ ram' = ApplySATAPorts(TreeOf(model), ports')
  /\ UNCHANGED <<model, order, map, installed>>

\* DSM's installer puts the model's own tree on the disks.
Install ==
  /\ phase = "mapped" /\ SwitchedOff /\ installed' = [model |-> model, tree |-> TreeOf(model)]
  /\ UNCHANGED <<model, order, map>>

\* mapInstalledSystem; its tree may fail to be written.
Pivot ==
  /\ phase = "mapped" /\ installed # None /\ installed.model = model /\ phase' = "running"
  /\ installed' \in {installed, [installed EXCEPT !.tree = ApplySATAPorts(@, ports)]}
  /\ UNCHANGED <<disks, loader, model, order, map, ports, ram>>

Off ==
  /\ phase \in {"mapped", "running"} /\ SwitchedOff
  /\ UNCHANGED <<model, order, map, installed>>

Next == Start \/ ChoosePort \/ Build \/ Boot \/ Install \/ Pivot \/ Off
Spec == Init /\ [][Next]_vars
-----------------------------------------------------------------------------
Entries == Ports \cup {Blank}
TypeOK ==
  /\ phase \in {"off", "page", "mapped", "running"}
  /\ disks \subseteq Ports /\ loader \in (Ports \cup {USB}) \ disks /\ model \in Models
  /\ order \in Seq(Entries) /\ (order # <<>> => order[Len(order)] # Blank)
  /\ map = None \/ \A i \in DOMAIN map : map[i].n \in 0..9 /\ map[i].at \in Nat
  /\ ports \in Seq(SataPorts) /\ ToSet(ram) \subseteq SataPorts \cup {Own}

\* On a device-tree model a bay has the port that was placed in it, at every
\* boot and whatever disks have come or gone.  Left out: bays behind one that
\* is empty or whose port this machine does not have, since the plan cannot
\* leave a bay out (renderBayPlan, applyBayPlan).
PlanHonoured ==
  (phase \in {"mapped", "running"} /\ model.dt) =>
    \A b \in 1..Lesser(Len(order), model.bays) :
      (\A i \in 1..b : order[i] \in SataPorts \ {loader}) => ram[b] = order[b]

\* No bay is given to the loader's own disk, wherever it was plugged in since
\* the build.
LoaderInNoBay == loader \notin ToSet(ram)

\* A build's bays stay with their ports from boot to boot, whatever disks come
\* and go: with a plan always, and without one as long as no unused controller
\* comes into use or the other way round (OrderForBays).
BaysStay ==
  (phase = "off" /\ map # None /\ model.dt) => \A x, y \in Plugged :
    (x[2] = y[2] /\ (RenderBayPlan # <<>> \/ Busy(x[1] \cap SataPorts) = Busy(y[1] \cap SataPorts)))
      => PortsFor(x[1], x[2]) = PortsFor(y[1], y[2])

\* Some start and port count per controller put every placed port in its bay
\* and no two disks in one.
Feasible ==
  /\ Len(order) <= model.bays
  /\ \A i \in 1..Len(Sata) : \A b, c \in PlacedOn(Sata[i]) :
       b > order[b].index /\ b + order[c].index = c + order[b].index
  /\ \A i, j \in 1..Len(Sata) : i # j =>
       \A b \in PlacedOn(Sata[i]), c \in PlacedOn(Sata[j]) :
         ((b - order[b].index)..b) \cap ((c - order[c].index)..c) = {}

Portmapped == phase = "off" /\ map # None /\ ~model.dt /\ Feasible

\* A port map can say less than the page lets the user choose; what it can say
\* it says: every placed port shows up in its bay, and no two ports share a disk
\* number, those of controllers that were placed nowhere included.
PortMapHonoured ==
  Portmapped =>
    /\ \A i \in 1..Len(Sata) : \A b \in PlacedOn(Sata[i]) :
         i <= Len(map) /\ order[b].index < map[i].n /\ map[i].at + order[b].index = b - 1
    /\ \A i, j \in DOMAIN map : i # j =>
         \A p \in 0..map[i].n - 1, q \in 0..map[j].n - 1 :
           map[i].at + p < model.bays => map[i].at + p # map[j].at + q

\* The bays a boot hands to DSM are those of the storage page, and no list of
\* them is longer than the model has bays (TypeOK).
BaysHonoured == TypeOK /\ PlanHonoured /\ LoaderInNoBay /\ PortMapHonoured

\* "Unassigned are the bays left pointing at the original appliance address":
\* in the installed system too, where no port is in two bays.
OnePortOneBay ==
  (phase = "running" /\ model.dt) =>
    \A b, c \in DOMAIN installed.tree :
      installed.tree[b] = installed.tree[c] /\ installed.tree[b] # Own => b = c
=============================================================================
