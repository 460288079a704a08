------------------------------ MODULE LanPage -------------------------------
(***************************************************************************)
(* The wizard's network page: the cards in the order that DSM will number  *)
(* them, the addresses they are to have, and the settings that a build     *)
(* takes along.  The page keeps two lists side by side, the cards and the  *)
(* addresses, and a third, the plan, for the cards that can be told apart. *)
(* A wizard that is closed without a build leaves no settings behind, so   *)
(* only sessions that end in a build count here.                           *)
(***************************************************************************)
EXTENDS Naturals, SequencesExt, Lists

CONSTANTS
  Cards,   \* network cards; a card is also its own address
  Keyed,   \* the cards that NICKey has a name for
  Machines, \* the sets of cards that the machine may be found with
  Slots,   \* all the cards, in slot order, USB ones last
  Models, Typed,  \* addresses that may be typed in
  Made,    \* the addresses that GenerateMACs makes up
  Blank,   \* an empty field
  MaxEdits \* bound on what the user changes

ASSUME LanPageAssumption ==
  /\ Keyed \subseteq Cards /\ Machines \subseteq (SUBSET Cards) \ {{}} /\ Machines # {}
  /\ Blank \notin Cards \cup Typed \cup ToSet(Made)
  /\ Slots \in Seq(Cards) /\ ToSet(Slots) = Cards /\ IsInjective(Slots)
  /\ Made \in Seq(ToSet(Made)) /\ Len(Made) >= Len(Slots)
  /\ MaxEdits \in Nat

VARIABLES
  phase,      \* "built" (and off), "menu", "page", "confirm"; LanBoot has more
  here,       \* the cards in the machine
  nics,       \* wizardState.nics
  order, macs, force, count,  \* Identity's NICOrder, MACs, ForceMAC, NICCount
  fromBackup, \* macsFromBackup
  model,
  backup,     \* the model and addresses that the installed DSM was last booted with
  shown,      \* history: the address of each card on the last page before the build
  made,       \* history: the last build made the addresses up
  edits
settings == <<order, macs, force, count, model>>
pageVars == <<nics, settings, fromBackup, shown, made, edits>>

Addresses == Cards \cup Typed \cup ToSet(Made)

OrderNICs(keys, plan) ==
  Within(plan, ToSet(keys)) \o Within(keys, Cards \ ToSet(plan))
KeyedOf(cards) == Within(cards, Keyed)
Swapped(list, i, j) ==
  [k \in DOMAIN list |-> IF k = i THEN list[j] ELSE IF k = j THEN list[i] ELSE list[k]]

\* "" up to the number of cards.
Padded(list, cards) ==
  [i \in DOMAIN list \cup DOMAIN cards |-> IF i \in DOMAIN list THEN list[i] ELSE Blank]

\* The backup's first addresses, then the cards' own; <<>> is Go's nil.
BackupMACs(cards) ==
  LET out == [i \in 1..Len(cards) |-> IF i <= Len(backup.macs) THEN backup.macs[i] ELSE cards[i]]
  IN IF backup.model # model \/ backup.macs = <<>> \/ out = cards THEN <<>> ELSE out

\* ensureMACs: the fields to start from.
EnsureMACs(list) ==
  IF Len(list) >= Len(nics) THEN list
  ELSE [i \in 1..Len(nics) |->
          IF Padded(list, nics)[i] = Blank THEN nics[i] ELSE Padded(list, nics)[i]]

MacAt(i) == IF i <= Len(macs) /\ macs[i] # Blank THEN macs[i] ELSE nics[i]
Shown == [c \in ToSet(nics) |-> MacAt(CHOOSE i \in 1..Len(nics) : nics[i] = c)]
Manual == force /\ ~fromBackup

\* buildNetwork, for the cards, the choice and the addresses it finds.
BuildNetwork(cards, forced, fromThere, list) ==
  /\ nics' = cards /\ force' = forced /\ count' = Len(cards)
  /\ fromBackup' = (/\ forced /\ BackupMACs(cards) # <<>>
                    /\ fromThere \/ list = BackupMACs(cards))
  /\ macs' = IF forced THEN list ELSE cards

Edit == phase = "page" /\ edits < MaxEdits /\ edits' = edits + 1
-----------------------------------------------------------------------------
\* The wizard starts, with any cards in the machine (scanHardware, orderNICs).
Start ==
  /\ phase = "built" /\ phase' = "menu"
  /\ here' \in Machines
  /\ LET found == Within(Slots, here')
         keys == OrderNICs(KeyedOf(found), order)
     IN order' = keys /\ nics' = keys \o Within(found, Cards \ Keyed)
  /\ fromBackup' = FALSE
  /\ UNCHANGED <<macs, force, count, model, backup, shown, made, edits>>

\* The model page: another model takes the addresses away, not the choice.
ChangeModel ==
  /\ phase = "menu" /\ edits < MaxEdits /\ edits' = edits + 1
  /\ model' \in Models \ {model} /\ macs' = <<>>
  /\ UNCHANGED <<phase, here, nics, order, force, count, fromBackup, backup, shown, made>>

Enter ==
  /\ phase \in {"menu", "confirm"} /\ phase' = "page"
  /\ BuildNetwork(nics, force, fromBackup, macs)
  /\ UNCHANGED <<here, order, model, backup, shown, made, edits>>
Back ==
  /\ phase = "page" /\ phase' = "menu"
  /\ UNCHANGED <<here, nics, settings, fromBackup, backup, shown, made, edits>>

\* The cards' real addresses, addresses by hand, or the installed DSM's.
Choose ==
  /\ Edit
  /\ \/ BuildNetwork(nics, FALSE, FALSE, macs)
     \/ BuildNetwork(nics, TRUE, FALSE, EnsureMACs(macs))
     \/ BackupMACs(nics) # <<>> /\ BuildNetwork(nics, TRUE, TRUE, BackupMACs(nics))
  /\ UNCHANGED <<phase, here, order, model, backup, shown, made>>

\* setMAC: the page is not built anew.
Type ==
  /\ Edit /\ Manual
  /\ \E i \in 1..Len(nics), m \in Typed \cup {Blank} :
       macs' = [Padded(macs, nics) EXCEPT ![i] = m]
  /\ UNCHANGED <<phase, here, nics, order, force, count, fromBackup, model, backup, shown, made>>

Generate ==
  /\ Edit /\ Manual /\ BuildNetwork(nics, force, fromBackup, SubSeq(Made, 1, Len(nics)))
  /\ UNCHANGED <<phase, here, order, model, backup, shown, made>>

\* Mutant: the addresses stay where they are.
MoveNICOnly ==
  /\ Edit
  /\ \E i, j \in 1..Len(nics) :
       /\ i # j
       /\ LET cards == Swapped(nics, i, j)
          IN order' = KeyedOf(cards) /\ BuildNetwork(cards, force, fromBackup, macs)
  /\ UNCHANGED <<phase, here, model, backup, shown, made>>

\* Two cards change places, with the addresses set for them.
MoveNIC ==
  /\ Edit
  /\ \E i, j \in 1..Len(nics) :
       /\ i # j
       /\ LET cards == Swapped(nics, i, j)
          IN /\ order' = KeyedOf(cards)
             /\ BuildNetwork(cards, force, fromBackup, Swapped(Padded(macs, nics), i, j))
  /\ UNCHANGED <<phase, here, model, backup, shown, made>>

ValidateNetwork == force => \A i, j \in 1..Len(nics) : MacAt(i) = MacAt(j) => i = j

Confirm ==
  /\ phase = "page" /\ ValidateNetwork /\ phase' = "confirm"
  /\ shown' = Shown
  /\ UNCHANGED <<here, nics, settings, fromBackup, backup, made, edits>>

\* Mutant: Validate does not look at the addresses.
BuildUnchecked ==
  /\ phase = "confirm" /\ phase' = "built"
  /\ macs' = IF macs = <<>> THEN SubSeq(Made, 1, count) ELSE macs
  /\ made' = (macs = <<>>)
  /\ UNCHANGED <<here, nics, order, force, count, fromBackup, model, backup, shown, edits>>

\* buildFlow: what Validate accepts of the addresses, and where there are none
\* as many as there are cards.
Build ==
  /\ phase = "confirm" /\ phase' = "built"
  /\ Blank \notin ToSet(macs) /\ (macs # <<>> => Len(macs) = count)
  /\ macs' = IF macs = <<>> THEN SubSeq(Made, 1, count) ELSE macs
  /\ made' = (macs = <<>>)
  /\ UNCHANGED <<here, nics, order, force, count, fromBackup, model, backup, shown, edits>>

PageInit ==
  /\ phase = "built" /\ here = {} /\ nics = <<>>
  /\ order = <<>> /\ macs = <<>> /\ force = FALSE /\ count = 1 /\ model \in Models
  /\ fromBackup = FALSE /\ backup = [model |-> model, macs |-> <<>>]
  /\ shown = <<>> /\ made = FALSE /\ edits = 0
PageNext ==
  \/ Start \/ ChangeModel \/ Enter \/ Back \/ Choose \/ Type \/ Generate \/ MoveNIC
  \/ Confirm \/ Build
-----------------------------------------------------------------------------
PageTypeOK ==
  /\ phase \in {"built", "menu", "page", "confirm", "drivers", "rename", "undo", "macs", "dsm", "run"}
  /\ here \subseteq Cards /\ nics \in Seq(Cards) /\ IsInjective(nics)
  /\ order \in Seq(Keyed) /\ IsInjective(order)
  /\ macs \in Seq(Addresses \cup {Blank}) /\ force \in BOOLEAN /\ fromBackup \in BOOLEAN
  /\ count \in 1..Len(Slots) /\ model \in Models
  /\ backup.model \in Models /\ backup.macs \in Seq(Addresses)
  /\ DOMAIN shown \subseteq Cards /\ made \in BOOLEAN /\ edits \in 0..MaxEdits

\* Moving a card never changes the address that the page shows for any card:
\* an address set by hand goes with its card, whatever the page was opened
\* with (moveNIC, macAt).
AddressesTravel == [][MoveNIC => Shown' = Shown]_<<phase, here, pageVars, backup>>
=============================================================================
