---------------------------- MODULE DriverPasses ----------------------------
(***************************************************************************)
(* The passes that load drivers at start-up: loadDrivers of vibeldr-boot   *)
(* (stage "boot") and loadExtraDrivers of vibeldr-init (stage "init").     *)
(* Loading a driver makes devices appear behind the ones it takes, at a    *)
(* time the kernel chooses.                                                *)
(***************************************************************************)
EXTENDS KmodPack

CONSTANTS
  NoDevice, NoDriver,
  Machines,   \* [parent, prompt]: the device whose driver creates a device, or
              \* NoDevice; the devices registered within the pause after a pass
  Packs,      \* [idx, prefer, bad, shy]: a pack, its originals, the modules the
              \* kernel refuses, those that give up while their device is absent
  Bootstrap,  \* bootstrapModules, a list of names
  Passes      \* 4 in the code

ASSUME PassesAssumption ==
  /\ Passes \in Nat \ {0}
  /\ \A mc \in Machines : /\ mc.parent \in [Devices -> Devices \cup {NoDevice}]
                         /\ mc.prompt \subseteq Devices
  /\ IsFiniteSet(Devices) /\ NoDevice \notin Devices /\ Bootstrap \in Seq(Nat)
  /\ \A p \in Packs : /\ DOMAIN p.idx \subseteq Nat /\ IsFiniteSet(DOMAIN p.idx)
                      /\ \A m \in DOMAIN p.idx : p.idx[m].deps \in Seq(Nat) /\ m # NoDriver
                      /\ p.prefer \subseteq DOMAIN p.idx

VARIABLES
  machine, stage, pack,
  pc,       \* "names" | "scan" | "load" | "pause" | "done" | "failed"
  pass,
  toLoad,   \* what this pass has left to load
  failed,   \* modules the kernel refused, remembered by loadExtraDrivers only
  mods,     \* /proc/modules, oldest first
  present,  \* the devices in sysfs
  driver    \* device -> the module that took it
passVars == <<machine, stage, pack, pc, pass, toLoad, failed, mods, present, driver>>

InKernel == ToSet(mods)
Drives(m, d) == d \in pack.idx[m].drives
Coming == 
  {d \in Devices \ present : machine.parent[d] # NoDevice /\ driver[machine.parent[d]] # NoDriver}

PassesInit ==
  /\ machine \in Machines /\ stage \in {"boot", "init"} /\ pack \in Packs
  /\ pc = (IF stage = "boot" THEN "names" ELSE "scan")
  /\ pass = 0 /\ toLoad = <<>> /\ failed = {} /\ mods = <<>>
  /\ present = {d \in Devices : machine.parent[d] = NoDevice}
  /\ driver = [d \in Devices |-> NoDriver]
-----------------------------------------------------------------------------
\* loadDrivers first loads what device matching never reaches.
ByNames ==
  /\ pc = "names"
  /\ \E first \in SetToSeqs(DOMAIN pack.idx) : toLoad' = ByName(pack.idx, Bootstrap, first)
  /\ pc' = "load"
  /\ UNCHANGED <<machine, stage, pack, pass, failed, mods, present, driver>>

\* Mutant: the pack's list of originals is not used.
ScanPlain ==
  /\ pc = "scan"
  /\ toLoad' = ResolvePreferring(pack.idx, present, InKernel, {})
  /\ pass' = pass + 1
  /\ pc' = IF stage = "init" /\ toLoad' = <<>> THEN "done" ELSE "load"
  /\ UNCHANGED <<machine, stage, pack, failed, mods, present, driver>>

\* Mutant: what the kernel has already is asked for again.
ScanAll ==
  /\ pc = "scan"
  /\ toLoad' = ResolvePreferring(pack.idx, present, {}, IF stage = "init" THEN pack.prefer ELSE {})
  /\ pass' = pass + 1
  /\ pc' = IF stage = "init" /\ toLoad' = <<>> THEN "done" ELSE "load"
  /\ UNCHANGED <<machine, stage, pack, failed, mods, present, driver>>

\* Mutant: only a pass that found something to load counts.
ScanUncounted ==
  /\ pc = "scan"
  /\ toLoad' = ResolvePreferring(pack.idx, present, InKernel, IF stage = "init" THEN pack.prefer ELSE {})
  /\ pass' = IF toLoad' = <<>> THEN pass ELSE pass + 1
  /\ pc' = IF stage = "init" /\ toLoad' = <<>> THEN "done" ELSE "load"
  /\ UNCHANGED <<machine, stage, pack, failed, mods, present, driver>>

\* A pass: the devices and the loaded modules are read.  Only loadExtraDrivers
\* prefers originals, and only it stops when there is nothing to load.
Scan ==
  /\ pc = "scan"
  /\ toLoad' = ResolvePreferring(pack.idx, present, InKernel, IF stage = "init" THEN pack.prefer ELSE {})
  /\ pass' = pass + 1
  /\ pc' = IF stage = "init" /\ toLoad' = <<>> THEN "done" ELSE "load"
  /\ UNCHANGED <<machine, stage, pack, failed, mods, present, driver>>

\* DeviceAliases cannot read sysfs: both give up.
ScanFails ==
  /\ pc = "scan"
  /\ pc' = "failed"
  /\ UNCHANGED <<machine, stage, pack, pass, toLoad, failed, mods, present, driver>>
-----------------------------------------------------------------------------
Turn(m) == pc = "load" /\ toLoad # <<>> /\ m = Head(toLoad) /\ toLoad' = Tail(toLoad)
Linked(m) == ToSet(pack.idx[m].deps) \cap DOMAIN pack.idx \subseteq InKernel
Unasked(m) == stage = "init" /\ m \in failed
GivesUp(m) == m \in pack.shy /\ ~\E d \in present : Drives(m, d)

\* The kernel takes the module, and the module its devices.
Insmod(m) ==
  /\ Turn(m) /\ ~Unasked(m)
  /\ m \notin InKernel /\ Linked(m) /\ m \notin pack.bad /\ ~GivesUp(m)
  /\ mods' = Append(mods, m)
  /\ driver' = [d \in Devices |->
                  IF d \in present /\ driver[d] = NoDriver /\ Drives(m, d) THEN m ELSE driver[d]]
  /\ UNCHANGED <<machine, stage, pack, pc, pass, failed, present>>

\* The kernel refuses it; loadExtraDrivers does not try it in a later pass.
Refused(m) ==
  /\ Turn(m) /\ ~Unasked(m)
  /\ m \notin InKernel /\ (~Linked(m) \/ m \in pack.bad)
  /\ failed' = IF stage = "init" THEN failed \cup {m} ELSE failed
  /\ UNCHANGED <<machine, stage, pack, pc, pass, mods, present, driver>>

\* Not tried again, there already (EEXIST), or no device of its own (ENODEV):
\* none of them is a failure.
NothingDone(m) ==
  /\ Turn(m)
  /\ Unasked(m) \/ m \in InKernel \/ (Linked(m) /\ m \notin pack.bad /\ GivesUp(m))
  /\ UNCHANGED <<machine, stage, pack, pc, pass, failed, mods, present, driver>>

\* The end of a pass; loadDrivers does not pause after the last one.
EndPass ==
  /\ pc = "load" /\ toLoad = <<>>
  /\ pc' = CASE pass = 0 -> "scan"
             [] stage = "boot" /\ pass = Passes -> "done"
             [] OTHER -> "pause"
  /\ UNCHANGED <<machine, stage, pack, pass, toLoad, failed, mods, present, driver>>

\* Mutant: one pass less.
WakeEarly ==
  /\ pc = "pause" /\ Coming \cap machine.prompt = {}
  /\ pc' = IF pass >= Passes - 1 THEN "done" ELSE "scan"
  /\ UNCHANGED <<machine, stage, pack, pass, toLoad, failed, mods, present, driver>>

Wake ==
  /\ pc = "pause" /\ Coming \cap machine.prompt = {}
  /\ pc' = IF pass >= Passes THEN "done" ELSE "scan"
  /\ UNCHANGED <<machine, stage, pack, pass, toLoad, failed, mods, present, driver>>
-----------------------------------------------------------------------------
\* The kernel registers a device; the oldest driver that matches takes it.
Register(d) ==
  /\ d \in Coming
  /\ present' = present \cup {d}
  /\ LET match == Within(mods, {m \in InKernel : Drives(m, d)})
     IN  driver' = [driver EXCEPT ![d] =
                      IF @ = NoDriver /\ match # <<>> THEN Head(match) ELSE @]
  /\ UNCHANGED <<machine, stage, pack, pc, pass, toLoad, failed, mods>>

Loader ==
  \/ ByNames \/ Scan \/ ScanFails \/ EndPass \/ Wake
  \/ \E m \in DOMAIN pack.idx : Insmod(m) \/ Refused(m) \/ NothingDone(m)

PassesNext == Loader \/ \E d \in Devices : Register(d)
PassesSpec == PassesInit /\ [][PassesNext]_passVars
FairPasses == PassesSpec /\ WF_passVars(Loader) /\ \A d \in Devices : WF_passVars(d \in machine.prompt /\ Register(d))
-----------------------------------------------------------------------------
AsksFor(m, d) ==
  Drives(m, d) /\ (stage = "boot" \/ m \in pack.prefer \/ ~\E p \in pack.prefer : Drives(p, d))
Needed(m) == AddDepends(pack.idx, m, {m})
Willing(m) == Needed(m) \cap pack.bad = {} /\ (Needed(m) \ {m}) \cap pack.shy = {}

\* A driver was meant for the device, and can be loaded.
Meant(d) == \E m \in DOMAIN pack.idx : AsksFor(m, d) /\ Willing(m)

\* Modules do not need each other in a ring, nor deeper than they are followed.
Uses(m, d) == d \in ToSet(pack.idx[m].deps) \cap DOMAIN pack.idx
Orderly ==
  /\ \A S \in SUBSET DOMAIN pack.idx : S # {} => \E m \in S : \A d \in S : ~Uses(m, d)
  /\ ~\E chain \in [1 .. MaxDepth + 2 -> DOMAIN pack.idx] :
        \A i \in 1 .. MaxDepth + 1 : Uses(chain[i], chain[i + 1])

\* The passes are over, on a machine that registers its devices during a pause.
Over == pc = "done" /\ machine.prompt = Devices /\ Orderly

\* Devices each behind the one before, with a driver meant for each of them.
Meets(path) ==
  /\ machine.parent[path[1]] = NoDevice
  /\ \A i \in DOMAIN path : Meant(path[i]) /\ (i > 1 => machine.parent[path[i]] = path[i - 1])

\* drivers_linux.go: one pass catches only the first step; as many passes as there
\* are steps to a device, each with a driver, find it and give it its own.
Reached ==
  Over => \A n \in 1..Passes : \A path \in [1..n -> Devices] : Meets(path) => driver[path[n]] # NoDriver

\* drivers_linux.go, extradrivers_linux.go: with a pass for each of its devices, a
\* machine has none left without a driver that was meant for it, whatever device
\* a driver loaded for another one, or needed by one, brings up late.
NoneLeft ==
  Over /\ Cardinality(Devices) <= Passes => \A d \in present : Meant(d) => driver[d] # NoDriver

\* kmod.go: no pass asks the kernel for a module it has, or for one twice.
NoSecondLoad ==
  pass > 0 => InKernel \cap ToSet(toLoad) = {} /\ IsInjective(toLoad)

\* One of our modules has a device that an original claims only when it was
\* wanted for another device, which no original claims, or something that was
\* wanted depends on it.
OursByNeed ==
  \A d \in present :
    /\ stage = "init" /\ driver[d] \in DOMAIN pack.idx \ pack.prefer
    /\ \E p \in pack.prefer : Drives(p, d)
    => \E e \in present : \E m \in DOMAIN pack.idx : AsksFor(m, e) /\ driver[d] \in Needed(m)

\* drivers_linux.go: the devices get the drivers they are meant to have.
DriversFound == Reached /\ NoneLeft /\ NoSecondLoad /\ OursByNeed

\* The loader comes to an end, whatever fails to load.
Finishes == <>(pc \in {"done", "failed"})
=============================================================================
