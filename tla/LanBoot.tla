------------------------------ MODULE LanBoot -------------------------------
(***************************************************************************)
(* What becomes of the network page at a boot.  The ramdisk stage waits    *)
(* for no card: drivers register interfaces, the plan renames them through *)
(* temporary names, one ioctl at a time, and takes the renames back when   *)
(* one fails; then the addresses are written.  DSM may name its interfaces *)
(* anew and reload a driver, and the agent writes the addresses again,     *)
(* from the copy of the plan that the pivot left on the system partition.  *)
(***************************************************************************)
EXTENDS LanPage

VARIABLES
  name,   \* each card's interface: <<"eth", n>>, <<"vibeldr", n>> or NoName
  addr,   \* each card's current address
  todo, at, \* the renames, and the next one to do or to take back
  kept,   \* dsmNICPlan, on the system partition
  went,   \* history: what went wrong in this boot
  fresh   \* history: the cards whose address was lost or never written
bootVars == <<name, addr, todo, at, kept, went, fresh>>
vars == <<phase, here, pageVars, backup, bootVars>>

NoName == <<"none", 0>>
Named == {c \in Cards : name[c] # NoName}
Numbered == {c \in Named : name[c][1] = "eth"}
Free == CHOOSE n \in 0..Cardinality(Cards) :
          /\ \A c \in Cards : name[c] # <<"eth", n>>
          /\ \A k \in 0..n - 1 : \E c \in Cards : name[c] = <<"eth", k>>

\* Interfaces by number, and by name where two have the same (ifIndexOf).
Before(c, d) ==
  \/ name[c][2] < name[d][2]
  \/ name[c][2] = name[d][2] /\ name[c][1] = "eth" /\ name[d][1] = "vibeldr"
Interfaces(cards) == Listed(cards, {p \in cards \X cards : Before(p[1], p[2])})

\* Mutant: straight to the name.
NICRenamesDirect(plan) ==
  LET now == Interfaces(Numbered)
      final == OrderNICs(now, plan)
  IN IF \A i \in 1..Len(final) : name[final[i]] = <<"eth", i - 1>> THEN <<>>
     ELSE [i \in 1..Len(final) |-> [from |-> name[final[i]], to |-> <<"eth", i - 1>>]]

\* Each card to a temporary name and then to its own.
NICRenames(plan) ==
  LET final == OrderNICs(Interfaces(Numbered), plan)
      away == [i \in 1..Len(final) |-> [from |-> name[final[i]], to |-> <<"vibeldr", i - 1>>]]
      back == [i \in 1..Len(final) |-> [from |-> <<"vibeldr", i - 1>>, to |-> <<"eth", i - 1>>]]
  IN IF \A i \in 1..Len(final) : name[final[i]] = <<"eth", i - 1>> THEN <<>> ELSE away \o back

\* Mutant: always by position.
MACTargetsByPosition(plan) ==
  LET ifaces == Interfaces(Named)
  IN [c \in Named |-> {i \in 1..Len(macs) : i <= Len(ifaces) /\ ifaces[i] = c}]

\* The addresses that are for a card: its place in the plan, or without a plan
\* its interface's place.
MACTargets(plan) ==
  LET ifaces == Interfaces(Named)
  IN [c \in Named |-> {i \in 1..Len(macs) :
        LET list == IF plan = <<>> THEN ifaces ELSE plan
        IN i <= Len(list) /\ list[i] = c}]

\* applyHardwareMACs: a driver may refuse, and then the card stays as it is.
ApplyHardwareMACs(plan) ==
  LET target == MACTargets(plan)
      missing == {c \in Named : \E i \in target[c] : macs[i] # addr[c]}
  IN \E refused \in SUBSET missing :
       /\ addr' = [c \in Cards |-> IF c \in missing \ refused
                                   THEN macs[CHOOSE i \in target[c] : TRUE] ELSE addr[c]]
       /\ fresh' = (fresh \ Named) \cup refused

\* The kernel: the lowest free ethN, and the card's own address.
Appear(c) ==
  /\ name' = [name EXCEPT ![c] = <<"eth", Free>>]
  /\ addr' = [addr EXCEPT ![c] = c]

\* renameInterface: not from a name that is gone nor to one that is taken.
Renamable(r) == (\E c \in Named : name[c] = r.from) /\ \A c \in Named : name[c] # r.to
Rename(r) ==
  Renamable(r) /\ name' = [c \in Cards |-> IF name[c] = r.from THEN r.to ELSE name[c]]
-----------------------------------------------------------------------------
\* Nothing of this outlives the power.
Cold ==
  /\ name' = [c \in Cards |-> NoName] /\ addr' = [c \in Cards |-> c]
  /\ todo' = <<>> /\ at' = 0 /\ went' = {} /\ fresh' = Cards

\* A boot into DSM; cards may have come or gone while the machine was off.
PowerOn ==
  /\ phase = "built" /\ macs # <<>> /\ phase' = "drivers"
  /\ here' \in Machines
  /\ Cold
  /\ UNCHANGED <<pageVars, backup, kept>>

\* A driver registers its card, in time or in the middle of things.
Register ==
  /\ phase \in {"drivers", "rename", "undo", "macs", "dsm"}
  /\ \E c \in here \ Named : Appear(c)
  /\ went' = IF phase \in {"rename", "undo", "macs"} THEN went \cup {"late"} ELSE went
  /\ UNCHANGED <<phase, here, pageVars, backup, todo, at, kept, fresh>>

\* applyNICPlan: not with a card up, and not where the names are right already.
\* netconsole brings a card up before it.
ApplyNICPlan ==
  /\ phase = "drivers"
  /\ \E up \in {FALSE} \cup {Numbered # {}} :
       LET renames == IF up \/ order = <<>> THEN <<>> ELSE NICRenames(order)
       IN /\ todo' = renames
          /\ went' = IF up THEN went \cup {"up"} ELSE went
          /\ phase' = IF renames = <<>> THEN "macs" ELSE "rename"
  /\ at' = 1
  /\ UNCHANGED <<here, pageVars, backup, name, addr, kept, fresh>>

\* The next rename, or, when it fails, the way back.
RenameNext ==
  /\ phase = "rename"
  /\ \/ /\ Rename(todo[at])
        /\ IF at = Len(todo) THEN phase' = "macs" /\ at' = 0 ELSE phase' = phase /\ at' = at + 1
        /\ UNCHANGED went
     \/ /\ at' = at - 1 /\ phase' = IF at = 1 THEN "macs" ELSE "undo"
        /\ went' = IF Renamable(todo[at]) THEN went \cup {"refused"} ELSE went
        /\ UNCHANGED name
  /\ UNCHANGED <<here, pageVars, backup, addr, todo, kept, fresh>>

\* Mutant: the first rename is not taken back.
UndoShort ==
  /\ phase = "undo"
  /\ LET back == [from |-> todo[at].to, to |-> todo[at].from]
     IN \/ at > 1 /\ Rename(back) /\ UNCHANGED went
        \/ name' = name /\ (IF at > 1 /\ Renamable(back) THEN went' = went \cup {"stuck"} ELSE UNCHANGED went)
  /\ at' = at - 1 /\ phase' = IF at = 1 THEN "macs" ELSE "undo"
  /\ UNCHANGED <<here, pageVars, backup, addr, todo, kept, fresh>>

\* The last rename is taken back first; that may fail too, and is not minded.
Undo ==
  /\ phase = "undo"
  /\ LET back == [from |-> todo[at].to, to |-> todo[at].from]
     IN \/ Rename(back) /\ UNCHANGED went
        \/ name' = name /\ (IF Renamable(back) THEN went' = went \cup {"stuck"} ELSE UNCHANGED went)
  /\ at' = at - 1 /\ phase' = IF at = 1 THEN "macs" ELSE "undo"
  /\ UNCHANGED <<here, pageVars, backup, addr, todo, kept, fresh>>

\* The addresses, and at the pivot the plan's copy and the backup; a write of
\* the copy may leave the old one, or nothing.
Pivot ==
  /\ phase = "macs" /\ phase' = "dsm"
  /\ ApplyHardwareMACs(order)
  /\ kept' \in {order, kept, <<>>}
  /\ backup' = [model |-> model, macs |-> macs]
  /\ todo' = <<>> /\ at' = 0 /\ went' = {}
  /\ UNCHANGED <<here, pageVars, name>>

\* DSM names its interfaces in another order.
DsmNames ==
  /\ phase = "dsm"
  /\ \E n \in [Named -> {name[c] : c \in Named}] :
       IsInjective(n) /\ name' = [c \in Cards |-> IF c \in Named THEN n[c] ELSE NoName]
  /\ UNCHANGED <<phase, here, pageVars, backup, addr, todo, at, kept, went, fresh>>

\* A driver is reloaded: the card's own address is back.
Reload ==
  /\ phase = "dsm"
  /\ \E c \in Named : addr[c] # c /\ addr' = [addr EXCEPT ![c] = c] /\ fresh' = fresh \cup {c}
  /\ UNCHANGED <<phase, here, pageVars, backup, name, todo, at, kept, went>>

\* Mutant: the agent knows no plan.
RunAgentNoPlan ==
  /\ phase = "dsm" /\ phase' = "run"
  /\ ApplyHardwareMACs(<<>>)
  /\ UNCHANGED <<here, pageVars, backup, name, todo, at, kept, went>>

\* runAgent: the addresses once more.
RunAgent ==
  /\ phase = "dsm" /\ phase' = "run"
  /\ ApplyHardwareMACs(kept)
  /\ UNCHANGED <<here, pageVars, backup, name, todo, at, kept, went>>

\* Power goes at any time.
PowerOff ==
  /\ phase \in {"drivers", "rename", "undo", "macs", "dsm", "run"} /\ phase' = "built"
  /\ here' = {} /\ Cold
  /\ UNCHANGED <<pageVars, backup, kept>>

Init ==
  /\ PageInit
  /\ name = [c \in Cards |-> NoName] /\ addr = [c \in Cards |-> c]
  /\ todo = <<>> /\ at = 0 /\ kept = <<>> /\ went = {} /\ fresh = Cards
Next ==
  \/ PageNext /\ UNCHANGED bootVars
  \/ PowerOn \/ Register \/ ApplyNICPlan \/ RenameNext \/ Undo \/ Pivot
  \/ DsmNames \/ Reload \/ RunAgent \/ PowerOff
Spec == Init /\ [][Next]_vars
-----------------------------------------------------------------------------
TypeOK ==
  /\ PageTypeOK
  /\ \A c \in Cards : name[c] \in {NoName} \cup ({"eth", "vibeldr"} \X (0..Cardinality(Cards)))
  /\ addr \in [Cards -> Addresses] /\ Named \subseteq Cards
  /\ at \in 0..Len(todo) + 1 /\ kept \in Seq(Keyed)
  /\ went \subseteq {"late", "up", "refused", "stuck"} /\ fresh \subseteq Cards

\* When the renames are over, done or taken back, the interfaces are eth0 to
\* ethN-1 again, whatever failed on the way: none is left under a temporary
\* name.  Left out: a card that registered among the renames and took a name
\* that was on its way, and a refused undo (applyNICPlan ignores both).
NamesAreWhole ==
  (phase = "macs" /\ went \cap {"late", "stuck"} = {}) =>
    {name[c] : c \in Named} = {<<"eth", n - 1>> : n \in 1..Cardinality(Named)}

\* The cards of the plan that are there are LAN 1, LAN 2, ... in its order,
\* whatever order their drivers registered them in, unless a card was up, a
\* rename failed or a card came late.
PlannedOrder ==
  (phase = "macs" /\ went = {}) =>
    LET present == Within(order, Named)
    IN \A i \in 1..Len(present) : name[present[i]] = <<"eth", i - 1>>

\* nicplan_linux.go: what the boot leaves the interfaces called.  The lists of
\* the settings stay within their bounds all along (TypeOK).
NamesAsPlanned == TypeOK /\ NamesAreWhole /\ PlannedOrder

\* A card with no unkeyed card before it on the page.
InStep(c) == c \in Keyed /\ \E i \in 1..Len(nics) :
                nics[i] = c /\ \A j \in 1..i : nics[j] \in Keyed

\* In a running DSM a card has the address that the last page showed for it,
\* whatever it is called, whichever cards have come or gone since, whether the
\* plan could be applied or not and whatever DSM renamed or reloaded.  Left
\* out: a card whose driver refused its address, a copy of the plan that was
\* not written, addresses that the build made up, and a card placed behind one
\* that has no key.
CarriesShown ==
  (phase = "run" /\ kept = order /\ ~made) =>
    \A c \in Named \ fresh : (c \in DOMAIN shown /\ InStep(c)) => addr[c] = shown[c]

\* The agent changes no address but those lost or never written: "If they
\* match, nothing is done beyond a log line per card" (runAgent).
AgentQuiet ==
  [][(phase = "dsm" /\ phase' = "run" /\ kept = order /\ order # <<>>) =>
       \A c \in Cards : addr'[c] # addr[c] => c \in fresh]_vars

\* The addresses of a running DSM, and that they rest.
AddressesAsShown == []CarriesShown /\ AgentQuiet

\* "the build carries exactly what the screen shows" (orderNICs): without the
\* conditions of CarriesShown.
ShownIsCarried ==
  (phase = "run" /\ kept = order) =>
    \A c \in Named \ fresh : c \in DOMAIN shown => addr[c] = shown[c]
=============================================================================
