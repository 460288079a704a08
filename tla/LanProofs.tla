------------------------------ MODULE LanProofs ------------------------------
(***************************************************************************)
(* Theorems about the network page (LanPage) and what becomes of it at a   *)
(* boot (LanBoot), for any cards, machines, slots and addresses.           *)
(***************************************************************************)
EXTENDS LanBoot, ListProofs

Once(s) == \A i, j \in 1..Len(s) : s[i] = s[j] => i = j

LEMMA OnceIsInjective ==
  ASSUME NEW S, NEW s \in Seq(S) PROVE IsInjective(s) <=> Once(s)
BY DEF IsInjective, Once

\* One list behind another.
LEMMA Joined ==
  ASSUME NEW S, NEW s \in Seq(S), NEW t \in Seq(S)
  PROVE  /\ s \o t \in Seq(S) /\ Len(s \o t) = Len(s) + Len(t)
         /\ \A i \in 1..Len(s) : (s \o t)[i] = s[i]
         /\ \A i \in 1..Len(t) : (s \o t)[Len(s) + i] = t[i]
         /\ \A i \in 1..Len(s \o t) : i \in 1..Len(s) \/ (i - Len(s) \in 1..Len(t) /\ i = Len(s) + (i - Len(s)))
OBVIOUS

LEMMA JoinedOnce ==
  ASSUME NEW S, NEW s \in Seq(S), NEW t \in Seq(S), Once(s), Once(t),
         \A i \in 1..Len(s), j \in 1..Len(t) : s[i] # t[j]
  PROVE  Once(s \o t)
<1> SUFFICES ASSUME NEW i \in 1..Len(s \o t), NEW j \in 1..Len(s \o t), (s \o t)[i] = (s \o t)[j]
             PROVE  i = j
  BY DEF Once
<1>1. CASE i \in 1..Len(s) /\ j \in 1..Len(s)
  BY <1>1, Joined DEF Once
<1>2. CASE i \notin 1..Len(s) /\ j \notin 1..Len(s)
  <2>1. i - Len(s) \in 1..Len(t) /\ j - Len(s) \in 1..Len(t)
    BY <1>2
  <2>2. (s \o t)[i] = t[i - Len(s)] /\ (s \o t)[j] = t[j - Len(s)]
    BY <1>2, <2>1
  <2>3. i - Len(s) = j - Len(s)
    BY <2>1, <2>2 DEF Once
  <2> QED
    BY <2>3
<1>3. CASE i \in 1..Len(s) /\ j \notin 1..Len(s)
  <2>1. j - Len(s) \in 1..Len(t) /\ (s \o t)[j] = t[j - Len(s)] /\ (s \o t)[i] = s[i]
    BY <1>3
  <2> QED
    BY <1>3, <2>1
<1>4. CASE i \notin 1..Len(s) /\ j \in 1..Len(s)
  <2>1. i - Len(s) \in 1..Len(t) /\ (s \o t)[i] = t[i - Len(s)] /\ (s \o t)[j] = s[j]
    BY <1>4
  <2> QED
    BY <1>4, <2>1
<1> QED
  BY <1>1, <1>2, <1>3, <1>4

LEMMA WithinOnce ==
  ASSUME NEW S, NEW s \in Seq(S), NEW T, Once(s)
  PROVE  Once(Within(s, T))
BY WithinInjective DEF Once

LEMMA CardsFinite ==
  IsFiniteSet(Cards) /\ Cardinality(Cards) \in Nat /\ Cardinality(Cards) <= Len(Slots)
<1>1. Slots \in [1..Len(Slots) -> Cards] /\ Len(Slots) \in Nat
  BY LanPageAssumption
<1>2. \A c \in Cards : \E i \in 1..Len(Slots) : Slots[i] = c
  BY LanPageAssumption DEF ToSet
<1>3. Slots \in Surjection(1..Len(Slots), Cards)
  BY <1>1, <1>2 DEF Surjection
<1>4. IsFiniteSet(1..Len(Slots)) /\ Cardinality(1..Len(Slots)) = Len(Slots)
  <2>1. PICK n \in Nat : n = Len(Slots)
    BY <1>1
  <2>2. IsFiniteSet(1..n) /\ Cardinality(1..n) = n
    <3>1. 1 \in Int /\ n \in Int /\ n - 1 + 1 = n /\ (1 > n => n = 0)
      OBVIOUS
    <3> QED
      BY <3>1, FS_Interval
  <2> QED
    BY <2>1, <2>2
<1>5. IsFiniteSet(Cards) /\ Cardinality(Cards) <= Cardinality(1..Len(Slots))
  BY <1>3, <1>4, FS_Surjection
<1> QED
  BY <1>4, <1>5, FS_CardinalityType

\* A list of cards, none twice, has no more than there are.
LEMMA NoMoreThanCards ==
  ASSUME NEW s \in Seq(Cards), Once(s)
  PROVE  Len(s) <= Cardinality(Cards) /\ Len(s) <= Len(Slots)
<1>1. s \in Injection(1..Len(s), Cards)
  BY DEF Injection, IsInjective, Once
<1>2. Cardinality(1..Len(s)) = Len(s)
  <2>1. PICK n \in Nat : n = Len(s)
    OBVIOUS
  <2>2. Cardinality(1..n) = n
    <3>1. 1 \in Int /\ n \in Int /\ n - 1 + 1 = n /\ (1 > n => n = 0)
      OBVIOUS
    <3> QED
      BY <3>1, FS_Interval
  <2> QED
    BY <2>1, <2>2
<1>3. Cardinality(1..Len(s)) <= Cardinality(Cards)
  BY <1>1, CardsFinite, FS_Injection
<1>4. Len(Slots) \in Nat
  BY LanPageAssumption
<1> QED
  BY <1>2, <1>3, <1>4, CardsFinite

\* orderNICs: the cards there are, each once, those of the plan first.
LEMMA OrderNICsSound ==
  ASSUME NEW keys \in Seq(Cards), NEW plan \in Seq(Cards), Once(keys), Once(plan)
  PROVE  LET out == OrderNICs(keys, plan)
         IN  /\ out \in Seq(Cards) /\ Once(out)
             /\ \A i \in 1..Len(out) : \E k \in 1..Len(keys) : out[i] = keys[k]
             /\ \A k \in 1..Len(keys) : \E i \in 1..Len(out) : out[i] = keys[k]
             /\ Len(Within(plan, ToSet(keys))) <= Len(out)
             /\ \A i \in 1..Len(Within(plan, ToSet(keys))) : out[i] = Within(plan, ToSet(keys))[i]
<1> DEFINE s == Within(plan, ToSet(keys))
           t == Within(keys, Cards \ ToSet(plan))
           out == OrderNICs(keys, plan)
<1>1. s \in Seq(Cards \cap ToSet(keys)) /\ t \in Seq(Cards \cap (Cards \ ToSet(plan)))
  BY WithinPlaces
<1>2. s \in Seq(Cards) /\ t \in Seq(Cards)
  BY <1>1
<1>3. Once(s) /\ Once(t)
  BY WithinOnce
<1>4. /\ \A i \in 1..Len(s) : s[i] \in Cards \cap ToSet(keys)
      /\ \A i \in 1..Len(s) : \E k \in 1..Len(plan) : s[i] = plan[k]
  BY <1>1, WithinSet
<1>5. /\ \A i \in 1..Len(t) : t[i] \in Cards \cap (Cards \ ToSet(plan))
      /\ \A i \in 1..Len(t) : \E k \in 1..Len(keys) : t[i] = keys[k]
  <2>1. \A i \in 1..Len(t) : t[i] \in Cards \cap (Cards \ ToSet(plan))
    BY <1>1
  <2>2. \A i \in 1..Len(t) : \E k \in 1..Len(keys) : t[i] = keys[k]
    BY WithinSet
  <2> QED
    BY <2>1, <2>2
<1>6. \A k \in 1..Len(keys) : keys[k] \in ToSet(plan) \/ \E i \in 1..Len(t) : t[i] = keys[k]
  BY WithinSet
<1>7. \A k \in 1..Len(plan) : plan[k] \in ToSet(keys) => \E i \in 1..Len(s) : s[i] = plan[k]
  BY WithinSet
<1>8. out = s \o t
  BY DEF OrderNICs
<1> HIDE DEF s, t, out
<1>9. \A i \in 1..Len(s), j \in 1..Len(t) : s[i] # t[j]
  <2>1. \A i \in 1..Len(s) : s[i] \in ToSet(plan)
    BY <1>4 DEF ToSet
  <2> QED
    BY <1>5, <2>1
<1>10. out \in Seq(Cards) /\ Once(out)
  BY <1>2, <1>3, <1>8, <1>9, JoinedOnce, Joined
<1>11. ASSUME NEW i \in 1..Len(out) PROVE \E k \in 1..Len(keys) : out[i] = keys[k]
  <2>1. CASE i \in 1..Len(s)
    <3>1. s[i] \in ToSet(keys) /\ out[i] = s[i]
      BY <1>2, <1>4, <1>8, <2>1
    <3> QED
      BY <3>1 DEF ToSet
  <2>2. CASE i \notin 1..Len(s)
    <3>1. i - Len(s) \in 1..Len(t) /\ out[i] = t[i - Len(s)]
      BY <1>2, <1>8, <2>2
    <3> QED
      BY <1>5, <3>1
  <2> QED
    BY <2>1, <2>2
<1>12. ASSUME NEW k \in 1..Len(keys) PROVE \E i \in 1..Len(out) : out[i] = keys[k]
  <2>1. CASE keys[k] \in ToSet(plan)
    <3>1. PICK m \in 1..Len(plan) : plan[m] = keys[k]
      BY <2>1 DEF ToSet
    <3>2. PICK i \in 1..Len(s) : s[i] = keys[k]
      BY <1>7, <3>1 DEF ToSet
    <3>3. i \in 1..Len(out) /\ out[i] = s[i]
      BY <1>2, <1>8, <3>2
    <3> QED
      BY <3>2, <3>3
  <2>2. CASE keys[k] \notin ToSet(plan)
    <3>1. PICK i \in 1..Len(t) : t[i] = keys[k]
      BY <1>6, <2>2
    <3>2. Len(s) + i \in 1..Len(out) /\ out[Len(s) + i] = t[i]
      BY <1>2, <1>8, <3>1
    <3> QED
      BY <3>1, <3>2
  <2> QED
    BY <2>1, <2>2
<1>13. Len(s) <= Len(out) /\ \A i \in 1..Len(s) : out[i] = s[i]
  BY <1>2, <1>8
<1> QED
  BY <1>10, <1>11, <1>12, <1>13 DEF s, out

(***************************************************************************)
(* The network page.                                                       *)
(***************************************************************************)

\* Cards that have only keyed ones before them are in the plan at their place.
Aligned ==
  \A i \in 1..Len(nics) : (\A j \in 1..i : nics[j] \in Keyed) => i <= Len(order) /\ order[i] = nics[i]

\* What a build left: addresses, and for each card the one that was shown.
Settled ==
  /\ \A i \in 1..Len(macs) : macs[i] \in Addresses
  /\ ~made => Len(macs) = Len(nics) /\ \A i \in 1..Len(nics) : shown[nics[i]] = macs[i]

Wizard == {"menu", "page", "confirm"}

PageInv ==
  /\ PageTypeOK
  /\ phase \in Wizard => Len(nics) >= 1
  /\ phase \in {"page", "confirm"} => count = Len(nics) /\ (~force => macs = nics)
  /\ Aligned
  /\ phase = "confirm" => shown = Shown
  /\ phase \notin Wizard => Settled

LEMMA NicsOnce == ASSUME PageTypeOK PROVE Once(nics) /\ Once(order)
<1>1. nics \in Seq(Cards) /\ IsInjective(nics) /\ order \in Seq(Keyed) /\ IsInjective(order)
  BY DEF PageTypeOK
<1> QED
  BY <1>1, OnceIsInjective

LEMMA KeyedAreCards == ASSUME NEW s \in Seq(Keyed) PROVE s \in Seq(Cards)
BY LanPageAssumption

LEMMA SlotsSlots == Slots \in Seq(Cards) /\ Once(Slots) /\ Len(Slots) >= 1
<1>1. Slots \in Seq(Cards) /\ IsInjective(Slots)
  BY LanPageAssumption
<1>2. \E c : c \in Cards
  BY LanPageAssumption
<1>3. Slots # <<>>
  BY <1>2, LanPageAssumption DEF ToSet
<1> QED
  BY <1>1, <1>3, OnceIsInjective

\* A plan made of the cards that have keys is aligned with them.
LEMMA KeyedAligned ==
  ASSUME NEW s \in Seq(Cards), Once(s)
  PROVE  /\ KeyedOf(s) \in Seq(Keyed) /\ Once(KeyedOf(s))
         /\ \A i \in 1..Len(s) : (\A j \in 1..i : s[j] \in Keyed) =>
               i <= Len(KeyedOf(s)) /\ KeyedOf(s)[i] = s[i]
<1>1. Within(s, Keyed) \in Seq(Cards \cap Keyed) /\ Once(Within(s, Keyed))
  BY WithinPlaces, WithinOnce
<1>2. ASSUME NEW i \in 1..Len(s), \A j \in 1..i : s[j] \in Keyed
      PROVE  i <= Len(Within(s, Keyed)) /\ Within(s, Keyed)[i] = s[i]
  BY <1>2, WithinPrefix
<1>3. Within(s, Keyed) \in Seq(Keyed)
  BY <1>1
<1> QED
  BY <1>1, <1>2, <1>3 DEF KeyedOf

LEMMA BuildNetworkTyped ==
  ASSUME NEW cards \in Seq(Cards), Once(cards), Len(cards) >= 1,
         NEW forced \in BOOLEAN, NEW fromThere \in BOOLEAN, NEW list \in Seq(Addresses \cup {Blank}),
         BuildNetwork(cards, forced, fromThere, list)
  PROVE  /\ nics' = cards /\ force' = forced /\ count' = Len(cards) /\ count' \in 1..Len(Slots)
         /\ fromBackup' \in BOOLEAN /\ macs' \in Seq(Addresses \cup {Blank})
         /\ forced => macs' = list
         /\ ~forced => macs' = cards
<1>1. /\ nics' = cards /\ force' = forced /\ count' = Len(cards)
      /\ fromBackup' \in BOOLEAN /\ macs' = IF forced THEN list ELSE cards
  BY DEF BuildNetwork
<1>2. Len(cards) <= Len(Slots) /\ Len(cards) \in Nat /\ Len(Slots) \in Nat
  BY NoMoreThanCards, LanPageAssumption
<1>3. cards \in Seq(Addresses \cup {Blank})
  BY DEF Addresses
<1> QED
  BY <1>1, <1>2, <1>3

\* What the page leaves alone when it builds its rows anew.
PageRest == UNCHANGED <<here, model, backup, shown, made>> /\ edits' \in 0..MaxEdits

LEMMA BuildNetworkInv ==
  ASSUME PageInv, phase \in {"page", "menu", "confirm"}, phase' = "page",
         NEW cards \in Seq(Cards), Once(cards), Len(cards) >= 1,
         NEW forced \in BOOLEAN, NEW fromThere \in BOOLEAN, NEW list \in Seq(Addresses \cup {Blank}),
         BuildNetwork(cards, forced, fromThere, list),
         (cards = nics /\ order' = order) \/ order' = KeyedOf(cards), PageRest
  PROVE  PageInv'
<1>1. /\ nics' = cards /\ force' = forced /\ count' = Len(cards) /\ count' \in 1..Len(Slots)
      /\ fromBackup' \in BOOLEAN /\ macs' \in Seq(Addresses \cup {Blank})
      /\ ~forced => macs' = cards
  BY BuildNetworkTyped
<1>2. IsInjective(cards)
  BY OnceIsInjective
<1>3. order' \in Seq(Keyed) /\ IsInjective(order') /\ Aligned'
  <2>1. CASE cards = nics /\ order' = order
    BY <1>1, <2>1 DEF PageInv, PageTypeOK, Aligned
  <2>2. CASE order' = KeyedOf(cards)
    <3>1. order' \in Seq(Keyed) /\ Once(order')
      BY <2>2, KeyedAligned
    <3>2. Aligned'
      BY <1>1, <2>2, KeyedAligned DEF Aligned
    <3> QED
      BY <3>1, <3>2, OnceIsInjective
  <2> QED
    BY <2>1, <2>2
<1>4. PageTypeOK'
  BY <1>1, <1>2, <1>3 DEF PageInv, PageTypeOK, PageRest
<1> QED
  BY <1>1, <1>3, <1>4 DEF PageInv, Wizard

\* The machine's cards as the wizard finds them.
LEMMA StartInv == ASSUME PageInv, Start PROVE PageInv'
<1> DEFINE found == Within(Slots, here')
           keys == OrderNICs(KeyedOf(found), order)
           rest == Within(found, Cards \ Keyed)
<1>1. found \in Seq(Cards) /\ Once(found)
  <2>1. found \in Seq(Cards \cap here')
    BY SlotsSlots, WithinPlaces
  <2> QED
    BY <2>1, SlotsSlots, WithinOnce
<1>2. order \in Seq(Cards) /\ Once(order) /\ order \in Seq(Keyed)
  BY NicsOnce, KeyedAreCards DEF PageInv, PageTypeOK
<1>3. order' = keys /\ nics' = keys \o rest /\ phase' = "menu"
  BY DEF Start
<1>4. here' \in Machines /\ here' # {} /\ here' \subseteq Cards
  BY LanPageAssumption DEF Start
<1>5. \E i \in 1..Len(found) : TRUE
  <2>1. PICK c \in Cards : c \in here'
    BY <1>4
  <2>2. PICK k \in 1..Len(Slots) : Slots[k] = c
    BY LanPageAssumption DEF ToSet
  <2> QED
    BY <2>1, <2>2, SlotsSlots, WithinSet
<1> HIDE DEF found, keys, rest
<1>6. KeyedOf(found) \in Seq(Keyed) /\ KeyedOf(found) \in Seq(Cards) /\ Once(KeyedOf(found))
  BY <1>1, KeyedAligned, KeyedAreCards
<1>7. /\ keys \in Seq(Cards) /\ Once(keys)
      /\ \A i \in 1..Len(keys) : \E k \in 1..Len(KeyedOf(found)) : keys[i] = KeyedOf(found)[k]
      /\ \A k \in 1..Len(KeyedOf(found)) : \E i \in 1..Len(keys) : keys[i] = KeyedOf(found)[k]
  BY <1>2, <1>6, OrderNICsSound DEF keys
<1>8. keys \in Seq(Keyed)
  <2>1. \A i \in 1..Len(keys) : keys[i] \in Keyed
    BY <1>6, <1>7
  <2>2. keys \in [1..Len(keys) -> Keyed] /\ Len(keys) \in Nat
    BY <1>7, <2>1
  <2> QED
    BY <2>2
<1>9. rest \in Seq(Cards) /\ Once(rest) /\ \A i \in 1..Len(rest) : rest[i] \notin Keyed
  <2>1. rest \in Seq(Cards \cap (Cards \ Keyed)) /\ Once(rest)
    BY <1>1, WithinPlaces, WithinOnce DEF rest
  <2>2. \A i \in 1..Len(rest) : rest[i] \in Cards \cap (Cards \ Keyed)
    BY <2>1
  <2> QED
    BY <2>1, <2>2
<1>10. \A i \in 1..Len(keys), j \in 1..Len(rest) : keys[i] # rest[j]
  BY <1>8, <1>9
<1>11. nics' \in Seq(Cards) /\ Once(nics') /\ IsInjective(nics')
  BY <1>3, <1>7, <1>9, <1>10, JoinedOnce, Joined, OnceIsInjective
<1>12. Len(nics') = Len(keys) + Len(rest) /\ Len(keys) \in Nat /\ Len(rest) \in Nat
  BY <1>3, <1>7, <1>9
<1>13. Len(nics') >= 1
  <2>1. PICK i \in 1..Len(found) : TRUE
    BY <1>5
  <2>2. CASE found[i] \in Keyed
    <3>1. \E k \in 1..Len(KeyedOf(found)) : KeyedOf(found)[k] = found[i]
      BY <1>1, <2>1, <2>2, WithinSet DEF KeyedOf
    <3> QED
      BY <1>7, <1>12, <3>1
  <2>3. CASE found[i] \notin Keyed
    <3>1. found[i] \in Cards \ Keyed
      BY <1>1, <2>1, <2>3
    <3>2. \E k \in 1..Len(rest) : rest[k] = found[i]
      BY <1>1, <2>1, <3>1, WithinSet DEF rest
    <3> QED
      BY <1>12, <3>2
  <2> QED
    BY <2>2, <2>3
<1>14. Aligned'
  <2> SUFFICES ASSUME NEW i \in 1..Len(nics'), \A j \in 1..i : nics'[j] \in Keyed
               PROVE  i <= Len(keys) /\ keys[i] = nics'[i]
    BY <1>3 DEF Aligned
  <2>1. i <= Len(keys)
    <3> SUFFICES ASSUME i > Len(keys) PROVE FALSE
      BY <1>12
    <3>1. Len(keys) + 1 \in 1..i /\ 1 \in 1..Len(rest)
      BY <1>12
    <3>2. nics'[Len(keys) + 1] = rest[1]
      BY <1>3, <1>7, <1>9, <3>1, Joined
    <3> QED
      BY <1>9, <3>1, <3>2
  <2> QED
    BY <1>3, <1>7, <1>9, <1>12, <2>1, Joined
<1>15. IsInjective(order') /\ order' \in Seq(Keyed)
  BY <1>3, <1>7, <1>8, OnceIsInjective
<1>16. PageTypeOK'
  BY <1>3, <1>4, <1>11, <1>15 DEF PageInv, PageTypeOK, Start
<1> QED
  BY <1>3, <1>13, <1>14, <1>16 DEF PageInv, Wizard

\* A list that is filled up to the number of cards.
LEMMA PaddedTyped ==
  ASSUME NEW list \in Seq(Addresses \cup {Blank}), NEW cards \in Seq(Cards)
  PROVE  /\ Padded(list, cards) \in Seq(Addresses \cup {Blank})
         /\ Len(Padded(list, cards)) = IF Len(list) >= Len(cards) THEN Len(list) ELSE Len(cards)
         /\ \A i \in 1..Len(Padded(list, cards)) :
              Padded(list, cards)[i] = IF i \in 1..Len(list) THEN list[i] ELSE Blank
<1> DEFINE n == IF Len(list) >= Len(cards) THEN Len(list) ELSE Len(cards)
<1>1. n \in Nat /\ DOMAIN list \cup DOMAIN cards = 1..n /\ DOMAIN list = 1..Len(list)
  OBVIOUS
<1>2. Padded(list, cards) = [i \in 1..n |-> IF i \in 1..Len(list) THEN list[i] ELSE Blank]
  BY <1>1 DEF Padded
<1> HIDE DEF n
<1>3. Padded(list, cards) \in [1..n -> Addresses \cup {Blank}]
  BY <1>2
<1> QED
  BY <1>1, <1>2, <1>3 DEF n

LEMMA SwappedTyped ==
  ASSUME NEW S, NEW s \in Seq(S), NEW i \in 1..Len(s), NEW j \in 1..Len(s)
  PROVE  /\ Swapped(s, i, j) \in Seq(S) /\ Len(Swapped(s, i, j)) = Len(s)
         /\ \A k \in 1..Len(s) : Swapped(s, i, j)[k] = IF k = i THEN s[j] ELSE IF k = j THEN s[i] ELSE s[k]
<1>1. Swapped(s, i, j) \in [1..Len(s) -> S]
  BY DEF Swapped
<1> QED
  BY <1>1 DEF Swapped

LEMMA SwappedOnce ==
  ASSUME NEW S, NEW s \in Seq(S), NEW i \in 1..Len(s), NEW j \in 1..Len(s), Once(s)
  PROVE  Once(Swapped(s, i, j))
<1>1. /\ Len(Swapped(s, i, j)) = Len(s)
      /\ \A k \in 1..Len(s) : Swapped(s, i, j)[k] = IF k = i THEN s[j] ELSE IF k = j THEN s[i] ELSE s[k]
  <2>1. Len(Swapped(s, i, j)) = Len(s)
    BY SwappedTyped
  <2> QED
    BY <2>1 DEF Swapped
<1>2. ASSUME NEW k \in 1..Len(s), NEW m \in 1..Len(s), Swapped(s, i, j)[k] = Swapped(s, i, j)[m]
      PROVE  k = m
  BY <1>1, <1>2 DEF Once
<1> QED
  BY <1>1, <1>2 DEF Once

LEMMA BackupTyped ==
  ASSUME PageTypeOK, NEW cards \in Seq(Cards)
  PROVE  BackupMACs(cards) \in Seq(Addresses \cup {Blank})
<1> DEFINE out == [i \in 1..Len(cards) |-> IF i <= Len(backup.macs) THEN backup.macs[i] ELSE cards[i]]
<1>1. backup.macs \in Seq(Addresses) /\ Len(cards) \in Nat
  BY DEF PageTypeOK
<1>2. \A i \in 1..Len(cards) : out[i] \in Addresses \cup {Blank}
  BY <1>1 DEF Addresses
<1>3. out \in [1..Len(cards) -> Addresses \cup {Blank}]
  BY <1>2
<1>4. out \in Seq(Addresses \cup {Blank})
  BY <1>1, <1>3
<1>5. BackupMACs(cards) = out \/ BackupMACs(cards) = <<>>
  BY DEF BackupMACs
<1> HIDE DEF out
<1>6. <<>> \in Seq(Addresses \cup {Blank})
  OBVIOUS
<1> QED
  BY <1>4, <1>5, <1>6

LEMMA EnsureTyped ==
  ASSUME PageTypeOK PROVE EnsureMACs(macs) \in Seq(Addresses \cup {Blank})
<1>1. macs \in Seq(Addresses \cup {Blank}) /\ nics \in Seq(Cards)
  BY DEF PageTypeOK
<1>2. CASE Len(macs) >= Len(nics)
  BY <1>1, <1>2 DEF EnsureMACs
<1>3. CASE ~(Len(macs) >= Len(nics))
  <2> DEFINE value(i) == IF Padded(macs, nics)[i] = Blank THEN nics[i] ELSE Padded(macs, nics)[i]
  <2>1. \A i \in 1..Len(nics) : value(i) \in Addresses \cup {Blank}
    BY <1>1, <1>3, PaddedTyped DEF Addresses
  <2>2. EnsureMACs(macs) = [i \in 1..Len(nics) |-> value(i)]
    BY <1>3 DEF EnsureMACs
  <2> HIDE DEF value
  <2>3. EnsureMACs(macs) \in [1..Len(nics) -> Addresses \cup {Blank}] /\ Len(nics) \in Nat
    BY <1>1, <2>1, <2>2
  <2> QED
    BY <2>3
<1> QED
  BY <1>2, <1>3

\* The first addresses that are made up.
LEMMA MadeTyped ==
  ASSUME NEW n \in 1..Len(Slots)
  PROVE  /\ SubSeq(Made, 1, n) \in Seq(Addresses) /\ SubSeq(Made, 1, n) \in Seq(Addresses \cup {Blank})
         /\ Len(SubSeq(Made, 1, n)) = n
<1>1. Made \in Seq(ToSet(Made)) /\ n \in 1..Len(Made) /\ ToSet(Made) \subseteq Addresses
  BY LanPageAssumption DEF Addresses
<1>2. SubSeq(Made, 1, n) \in Seq(ToSet(Made)) /\ Len(SubSeq(Made, 1, n)) = n
  BY <1>1
<1> QED
  BY <1>1, <1>2

LEMMA EnterInv == ASSUME PageInv, Enter PROVE PageInv'
<1>1. /\ nics \in Seq(Cards) /\ Once(nics) /\ Len(nics) >= 1
      /\ force \in BOOLEAN /\ fromBackup \in BOOLEAN /\ macs \in Seq(Addresses \cup {Blank})
      /\ phase \in {"page", "menu", "confirm"} /\ phase' = "page"
  BY NicsOnce DEF PageInv, PageTypeOK, Enter, Wizard
<1>2. BuildNetwork(nics, force, fromBackup, macs) /\ order' = order /\ PageRest
  BY DEF Enter, PageRest, PageInv, PageTypeOK
<1> QED
  BY <1>1, <1>2, BuildNetworkInv

LEMMA EditFacts ==
  ASSUME PageInv, Edit
  PROVE  /\ nics \in Seq(Cards) /\ Once(nics) /\ Len(nics) >= 1
         /\ force \in BOOLEAN /\ fromBackup \in BOOLEAN /\ macs \in Seq(Addresses \cup {Blank})
         /\ phase = "page" /\ edits' \in 0..MaxEdits
<1>1. MaxEdits \in Nat
  BY LanPageAssumption
<1> QED
  BY <1>1, NicsOnce DEF PageInv, PageTypeOK, Edit, Wizard

LEMMA ChooseInv == ASSUME PageInv, Choose PROVE PageInv'
<1>1. /\ nics \in Seq(Cards) /\ Once(nics) /\ Len(nics) >= 1
      /\ macs \in Seq(Addresses \cup {Blank}) /\ phase = "page" /\ edits' \in 0..MaxEdits
  BY EditFacts DEF Choose
<1>2. phase' = "page" /\ order' = order /\ PageRest
  BY <1>1 DEF Choose, PageRest
<1>3. CASE BuildNetwork(nics, FALSE, FALSE, macs)
  BY <1>1, <1>2, <1>3, BuildNetworkInv
<1>4. CASE BuildNetwork(nics, TRUE, FALSE, EnsureMACs(macs))
  <2>1. EnsureMACs(macs) \in Seq(Addresses \cup {Blank})
    BY EnsureTyped DEF PageInv
  <2> QED
    BY <1>1, <1>2, <1>4, <2>1, BuildNetworkInv
<1>5. CASE BuildNetwork(nics, TRUE, TRUE, BackupMACs(nics))
  <2>1. BackupMACs(nics) \in Seq(Addresses \cup {Blank})
    BY <1>1, BackupTyped DEF PageInv
  <2> QED
    BY <1>1, <1>2, <1>5, <2>1, BuildNetworkInv
<1> QED
  BY <1>3, <1>4, <1>5 DEF Choose

LEMMA GenerateInv == ASSUME PageInv, Generate PROVE PageInv'
<1>1. /\ nics \in Seq(Cards) /\ Once(nics) /\ Len(nics) >= 1
      /\ force \in BOOLEAN /\ fromBackup \in BOOLEAN /\ phase = "page" /\ edits' \in 0..MaxEdits
  BY EditFacts DEF Generate
<1>2. phase' = "page" /\ order' = order /\ PageRest
  BY <1>1 DEF Generate, PageRest
<1>3. Len(nics) \in 1..Len(Slots)
  BY <1>1, NoMoreThanCards, SlotsSlots
<1>4. SubSeq(Made, 1, Len(nics)) \in Seq(Addresses \cup {Blank})
  BY <1>3, MadeTyped
<1> QED
  BY <1>1, <1>2, <1>4, BuildNetworkInv DEF Generate

LEMMA TypeInv == ASSUME PageInv, Type PROVE PageInv'
<1>1. /\ nics \in Seq(Cards) /\ Len(nics) >= 1 /\ phase = "page" /\ edits' \in 0..MaxEdits
      /\ macs \in Seq(Addresses \cup {Blank}) /\ force
  BY EditFacts DEF Type, Manual
<1>2. PICK i \in 1..Len(nics), m \in Typed \cup {Blank} : macs' = [Padded(macs, nics) EXCEPT ![i] = m]
  BY DEF Type
<1>3. Padded(macs, nics) \in Seq(Addresses \cup {Blank}) /\ m \in Addresses \cup {Blank}
  BY <1>1, PaddedTyped DEF Addresses
<1>4. macs' \in Seq(Addresses \cup {Blank})
  <2> DEFINE list == Padded(macs, nics)
             T == Addresses \cup {Blank}
  <2>1. list \in [1..Len(list) -> T] /\ Len(list) \in Nat /\ m \in T /\ macs' = [list EXCEPT ![i] = m]
    BY <1>2, <1>3
  <2> HIDE DEF list, T
  <2>2. macs' \in [1..Len(list) -> T] /\ Len(list) \in Nat
    BY <2>1
  <2>3. macs' \in Seq(T)
    BY <2>2
  <2> QED
    BY <2>3 DEF T
<1>5. UNCHANGED <<phase, here, nics, order, force, count, fromBackup, model, backup, shown, made>>
  BY DEF Type
<1>6. PageTypeOK'
  BY <1>1, <1>4, <1>5 DEF PageInv, PageTypeOK
<1> QED
  BY <1>1, <1>5, <1>6 DEF PageInv, Wizard, Aligned

LEMMA MoveNICInv == ASSUME PageInv, MoveNIC PROVE PageInv'
<1>1. /\ nics \in Seq(Cards) /\ Once(nics) /\ Len(nics) >= 1
      /\ force \in BOOLEAN /\ fromBackup \in BOOLEAN /\ macs \in Seq(Addresses \cup {Blank})
      /\ phase = "page" /\ edits' \in 0..MaxEdits
  BY EditFacts DEF MoveNIC
<1>2. phase' = "page" /\ PageRest
  BY <1>1 DEF MoveNIC, PageRest
<1>3. PICK i \in 1..Len(nics), j \in 1..Len(nics) :
        /\ order' = KeyedOf(Swapped(nics, i, j))
        /\ BuildNetwork(Swapped(nics, i, j), force, fromBackup, Swapped(Padded(macs, nics), i, j))
  BY DEF MoveNIC
<1>4. Swapped(nics, i, j) \in Seq(Cards) /\ Len(Swapped(nics, i, j)) = Len(nics)
  BY <1>1, SwappedTyped
<1>5. Once(Swapped(nics, i, j))
  BY <1>1, SwappedOnce
<1>6. /\ Padded(macs, nics) \in Seq(Addresses \cup {Blank})
      /\ i \in 1..Len(Padded(macs, nics)) /\ j \in 1..Len(Padded(macs, nics))
  BY <1>1, PaddedTyped
<1>7. Swapped(Padded(macs, nics), i, j) \in Seq(Addresses \cup {Blank})
  BY <1>6, SwappedTyped
<1> QED
  BY <1>1, <1>2, <1>3, <1>4, <1>5, <1>7, BuildNetworkInv

\* On the page a card is shown the address at its own place.
LEMMA ShownAt ==
  ASSUME PageTypeOK, NEW i \in 1..Len(nics) PROVE Shown[nics[i]] = MacAt(i)
<1>1. nics \in Seq(Cards) /\ Once(nics)
  BY NicsOnce DEF PageTypeOK
<1>2. (CHOOSE k \in 1..Len(nics) : nics[k] = nics[i]) = i
  BY <1>1 DEF Once
<1>3. nics[i] \in ToSet(nics)
  BY <1>1 DEF ToSet
<1> QED
  BY <1>2, <1>3 DEF Shown

LEMMA BuildInv == ASSUME PageInv, Build PROVE PageInv'
<1>1. /\ phase = "confirm" /\ phase' = "built" /\ shown = Shown /\ count = Len(nics) /\ PageTypeOK
      /\ Len(nics) >= 1 /\ nics \in Seq(Cards) /\ macs \in Seq(Addresses \cup {Blank}) /\ count \in 1..Len(Slots)
  BY DEF PageInv, Build, PageTypeOK, Wizard
<1>2. UNCHANGED <<here, nics, order, force, count, fromBackup, model, backup, shown, edits>>
  BY DEF Build
<1>3. CASE macs = <<>>
  <2>1. macs' = SubSeq(Made, 1, count) /\ made' = TRUE
    BY <1>3 DEF Build
  <2>2. macs' \in Seq(Addresses) /\ macs' \in Seq(Addresses \cup {Blank})
    BY <1>1, <2>1, MadeTyped
  <2>3. PageTypeOK'
    BY <1>1, <1>2, <2>1, <2>2 DEF PageTypeOK
  <2>4. Settled'
    BY <2>1, <2>2 DEF Settled
  <2> QED
    BY <1>1, <1>2, <2>3, <2>4 DEF PageInv, Aligned, Wizard
<1>4. CASE macs # <<>>
  <2>1. macs' = macs /\ made' = FALSE /\ Len(macs) = Len(nics) /\ Blank \notin ToSet(macs)
    BY <1>1, <1>4 DEF Build
  <2>2. \A i \in 1..Len(macs) : macs[i] # Blank /\ macs[i] \in Addresses
    BY <1>1, <2>1 DEF ToSet
  <2>3. \A i \in 1..Len(nics) : shown[nics[i]] = macs[i]
    <3> TAKE i \in 1..Len(nics)
    <3>1. Shown[nics[i]] = MacAt(i)
      BY <1>1, ShownAt
    <3> QED
      BY <1>1, <2>1, <2>2, <3>1 DEF MacAt
  <2>4. PageTypeOK'
    BY <1>1, <1>2, <2>1 DEF PageTypeOK
  <2>5. Settled'
    BY <1>2, <2>1, <2>2, <2>3 DEF Settled
  <2> QED
    BY <1>1, <1>2, <2>4, <2>5 DEF PageInv, Aligned, Wizard
<1> QED
  BY <1>3, <1>4

LEMMA MenuInv == ASSUME PageInv, ChangeModel \/ Back \/ Confirm PROVE PageInv'
<1>1. MaxEdits \in Nat
  BY LanPageAssumption
<1>2. CASE ChangeModel
  <2>1. macs' = <<>> /\ <<>> \in Seq(Addresses \cup {Blank})
    BY <1>2 DEF ChangeModel
  <2>2. PageTypeOK'
    BY <1>1, <1>2, <2>1 DEF ChangeModel, PageInv, PageTypeOK
  <2> QED
    BY <1>2, <2>2 DEF ChangeModel, PageInv, Aligned, Wizard
<1>3. CASE Back
  <2>1. PageTypeOK'
    BY <1>3 DEF Back, PageInv, PageTypeOK, settings
  <2> QED
    BY <1>3, <2>1 DEF Back, PageInv, Aligned, Wizard, settings
<1>4. CASE Confirm
  <2>1. DOMAIN Shown \subseteq Cards
    BY DEF Shown, PageInv, PageTypeOK, ToSet
  <2>2. /\ phase = "page" /\ phase' = "confirm" /\ shown' = Shown
        /\ UNCHANGED <<here, nics, order, macs, force, count, model, fromBackup, backup, made, edits>>
    BY <1>4 DEF Confirm, settings
  <2>3. PageTypeOK'
    BY <2>1, <2>2 DEF PageInv, PageTypeOK
  <2>4. Shown' = Shown
    BY <2>2 DEF Shown, MacAt
  <2> QED
    BY <2>2, <2>3, <2>4 DEF PageInv, Aligned, Wizard
<1> QED
  BY <1>2, <1>3, <1>4

LEMMA PageStep == ASSUME PageInv, PageNext PROVE PageInv'
BY StartInv, MenuInv, EnterInv, ChooseInv, TypeInv, GenerateInv, MoveNICInv, BuildInv DEF PageNext

LEMMA PageStarts == ASSUME PageInit PROVE PageInv
<1>1. Len(Slots) >= 1 /\ Len(Slots) \in Nat /\ MaxEdits \in Nat
  BY SlotsSlots, LanPageAssumption
<1>2. <<>> \in Seq(Cards) /\ <<>> \in Seq(Keyed) /\ <<>> \in Seq(Addresses \cup {Blank})
      /\ <<>> \in Seq(Addresses) /\ Len(<<>>) = 0 /\ IsInjective(<<>>) /\ DOMAIN <<>> \subseteq Cards
  BY DEF IsInjective
<1>3. PageTypeOK
  <2>1. nics \in Seq(Cards) /\ IsInjective(nics) /\ order \in Seq(Keyed) /\ IsInjective(order)
    BY <1>2 DEF PageInit
  <2>2. macs \in Seq(Addresses \cup {Blank}) /\ backup.model \in Models /\ backup.macs \in Seq(Addresses)
    BY <1>2 DEF PageInit
  <2>3. count \in 1..Len(Slots) /\ edits \in 0..MaxEdits /\ DOMAIN shown \subseteq Cards
    BY <1>1, <1>2 DEF PageInit
  <2> QED
    BY <2>1, <2>2, <2>3 DEF PageInit, PageTypeOK
<1>4. Settled /\ Aligned
  BY <1>2 DEF PageInit, Settled, Aligned
<1> QED
  BY <1>3, <1>4 DEF PageInit, PageInv, Wizard

LEMMA PlaceOf ==
  ASSUME NEW s \in Seq(Cards), Once(s), NEW i \in 1..Len(s)
  PROVE  (CHOOSE k \in 1..Len(s) : s[k] = s[i]) = i /\ s[i] \in ToSet(s)
<1>1. \A k \in 1..Len(s) : s[k] = s[i] => k = i
  BY DEF Once
<1> QED
  BY <1>1 DEF ToSet

\* Two cards that change places keep their addresses, and so do the others.
LEMMA MoveKeepsShown == ASSUME PageInv, MoveNIC PROVE Shown' = Shown
<1>1. /\ nics \in Seq(Cards) /\ Once(nics) /\ Len(nics) >= 1
      /\ force \in BOOLEAN /\ macs \in Seq(Addresses \cup {Blank})
      /\ phase = "page" /\ (~force => macs = nics)
  BY EditFacts DEF MoveNIC, PageInv
<1>2. PICK i \in 1..Len(nics), j \in 1..Len(nics) :
        BuildNetwork(Swapped(nics, i, j), force, fromBackup, Swapped(Padded(macs, nics), i, j))
  BY DEF MoveNIC
<1> DEFINE other(k) == IF k = i THEN j ELSE IF k = j THEN i ELSE k
<1>3. \A k \in 1..Len(nics) : other(k) \in 1..Len(nics) /\ other(other(k)) = k
  OBVIOUS
<1>4. /\ nics' \in Seq(Cards) /\ Once(nics') /\ Len(nics') = Len(nics)
      /\ \A k \in 1..Len(nics) : nics'[k] = nics[other(k)]
  <2>1. nics' = Swapped(nics, i, j)
    BY <1>2 DEF BuildNetwork
  <2>2. Swapped(nics, i, j) \in Seq(Cards) /\ Len(Swapped(nics, i, j)) = Len(nics)
    BY <1>1, SwappedTyped
  <2>3. Once(Swapped(nics, i, j))
    BY <1>1, SwappedOnce
  <2>4. \A k \in 1..Len(nics) : Swapped(nics, i, j)[k] = nics[other(k)]
    BY <1>1 DEF Swapped
  <2> QED
    BY <2>1, <2>2, <2>3, <2>4
<1>5. \A k \in 1..Len(nics) : MacAt(k)' = MacAt(other(k))
  <2>1. CASE ~force
    <3>1. macs' = nics' /\ macs = nics
      BY <1>1, <1>2, <2>1 DEF BuildNetwork
    <3>2. Blank \notin Cards
      BY LanPageAssumption
    <3> QED
      BY <1>1, <1>3, <1>4, <3>1, <3>2 DEF MacAt
  <2>2. CASE force
    <3> DEFINE list == Padded(macs, nics)
    <3>1. macs' = Swapped(list, i, j)
      BY <1>2, <2>2 DEF BuildNetwork
    <3>2. /\ list \in Seq(Addresses \cup {Blank})
          /\ Len(list) = IF Len(macs) >= Len(nics) THEN Len(macs) ELSE Len(nics)
          /\ \A k \in 1..Len(list) : list[k] = IF k \in 1..Len(macs) THEN macs[k] ELSE Blank
      BY <1>1, PaddedTyped
    <3> HIDE DEF list
    <3>3. i \in 1..Len(list) /\ j \in 1..Len(list)
      BY <1>1, <3>2
    <3>4. Len(macs') = Len(list)
      BY <3>1, <3>2, <3>3, SwappedTyped
    <3>5. \A k \in 1..Len(list) : macs'[k] = list[other(k)]
      BY <3>1, <3>2, <3>3 DEF Swapped
    <3>6. \A k \in 1..Len(nics) : k \in 1..Len(list)
      BY <1>1, <3>2
    <3> QED
      BY <1>1, <1>3, <1>4, <3>2, <3>4, <3>5, <3>6 DEF MacAt
  <2> QED
    BY <1>1, <2>1, <2>2
<1>6. ToSet(nics') = ToSet(nics)
  <2>1. ToSet(nics') = {nics'[k] : k \in 1..Len(nics)} /\ ToSet(nics) = {nics[k] : k \in 1..Len(nics)}
    BY <1>1, <1>4 DEF ToSet
  <2> QED
    BY <1>3, <1>4, <2>1
<1>7. ASSUME NEW c \in ToSet(nics) PROVE Shown'[c] = Shown[c]
  <2>1. PICK m \in 1..Len(nics) : nics[m] = c
    BY <1>1, <1>7 DEF ToSet
  <2>2. other(m) \in 1..Len(nics) /\ nics'[other(m)] = c
    BY <1>3, <1>4, <2>1
  <2>3. (CHOOSE k \in 1..Len(nics) : nics[k] = c) = m
    BY <1>1, <2>1, PlaceOf
  <2>4. (CHOOSE k \in 1..Len(nics') : nics'[k] = c) = other(m)
    BY <1>4, <2>2, PlaceOf
  <2> HIDE DEF other
  <2>5. Shown[c] = MacAt(m) /\ Shown'[c] = MacAt(other(m))'
    BY <1>6, <1>7, <2>3, <2>4 DEF Shown
  <2>6. MacAt(other(m))' = MacAt(other(other(m)))
    BY <1>5, <2>2
  <2> QED
    BY <1>3, <2>1, <2>5, <2>6
<1>8. Shown = [c \in ToSet(nics) |-> Shown[c]] /\ Shown' = [c \in ToSet(nics) |-> Shown'[c]]
  BY <1>6 DEF Shown
<1> QED
  BY <1>7, <1>8

(***************************************************************************)
(* The names at a boot.                                                    *)
(***************************************************************************)

Spans == {"eth", "vibeldr"} \X (0..Cardinality(Cards))

\* No two interfaces have one name.
Names ==
  /\ name \in [Cards -> {NoName} \cup Spans]
  /\ \A c, d \in Named : name[c] = name[d] => c = d

\* The kernel finds a number that is free, and no lower one is.
LEMMA FreeSound ==
  ASSUME name \in [Cards -> {NoName} \cup Spans]
  PROVE  /\ Free \in 0..Cardinality(Cards) /\ \A c \in Cards : name[c] # <<"eth", Free>>
         /\ \A k \in 0..Free - 1 : \E c \in Cards : name[c] = <<"eth", k>>
<1> DEFINE T == {n \in Nat : \A c \in Cards : name[c] # <<"eth", n>>}
           N == Cardinality(Cards)
<1>1. N \in Nat /\ IsFiniteSet(Cards)
  BY CardsFinite
<1>2. N + 1 \in T
  BY <1>1 DEF Spans, NoName
<1>3. PICK x \in T : \A y \in T : x <= y
  <2>1. T \subseteq Nat /\ T # {}
    BY <1>2
  <2> HIDE DEF T
  <2> QED
    BY <2>1, LeastElement
<1>4. x \in Nat /\ x <= N + 1
  BY <1>2, <1>3
<1>5. \A k \in 0..x - 1 : \E c \in Cards : name[c] = <<"eth", k>>
  <2> TAKE k \in 0..x - 1
  <2>1. k \in Nat /\ ~(x <= k)
    BY <1>4
  <2>2. k \notin T
    <3> HIDE DEF T
    <3> QED
      BY <1>3, <2>1
  <2> QED
    BY <2>1, <2>2
<1>6. x # N + 1
  <2> SUFFICES ASSUME x = N + 1 PROVE FALSE
    OBVIOUS
  <2> DEFINE f == [k \in 0..N |-> CHOOSE c \in Cards : name[c] = <<"eth", k>>]
  <2>0. \A k \in 0..N : \E c \in Cards : name[c] = <<"eth", k>>
    <3>1. 0..x - 1 = 0..N
      BY <1>1
    <3> HIDE DEF N
    <3> QED
      BY <1>5, <3>1
  <2>1. \A k \in 0..N : f[k] \in Cards /\ name[f[k]] = <<"eth", k>>
    <3> TAKE k \in 0..N
    <3>1. \E c \in Cards : name[c] = <<"eth", k>>
      BY <2>0
    <3>2. f[k] = CHOOSE c \in Cards : name[c] = <<"eth", k>>
      OBVIOUS
    <3> HIDE DEF f, N
    <3> QED
      BY <3>1, <3>2
  <2>2. f \in [0..N -> Cards]
    <3> HIDE DEF N
    <3> QED
      BY <2>1
  <2> HIDE DEF f, N
  <2>3. IsFiniteSet(0..N) /\ Cardinality(0..N) = N + 1
    BY <1>1, FS_Interval
  <2>4. N < Cardinality(0..N)
    BY <1>1, <2>3
  <2>5. \E j, k \in 0..N : j # k /\ f[j] = f[k]
    BY <1>1, <2>2, <2>3, <2>4, FS_PigeonHole DEF N
  <2> QED
    BY <2>1, <2>5
<1>7. x \in 0..N /\ \A c \in Cards : name[c] # <<"eth", x>>
  BY <1>1, <1>3, <1>4, <1>6
<1>8. \E n \in 0..N : /\ \A c \in Cards : name[c] # <<"eth", n>>
                      /\ \A k \in 0..n - 1 : \E c \in Cards : name[c] = <<"eth", k>>
  BY <1>5, <1>7
<1> QED
  BY <1>8 DEF Free

LEMMA SpanNames ==
  ASSUME Names
  PROVE  /\ \A c \in Named : c \in Cards /\ name[c] \in Spans
         /\ \A c \in Cards \ Named : name[c] = NoName
         /\ NoName \notin Spans /\ Named \subseteq Cards /\ Numbered \subseteq Named
BY DEF Names, Named, Numbered, NoName, Spans

LEMMA NewName ==
  ASSUME Names, NEW c \in Cards \ Named, Appear(c)
  PROVE  /\ Names' /\ Named' = Named \cup {c} /\ name'[c] = <<"eth", Free>>
         /\ \A d \in Cards \ {c} : name'[d] = name[d]
<1>1. /\ Free \in 0..Cardinality(Cards) /\ \A d \in Cards : name[d] # <<"eth", Free>>
  BY FreeSound DEF Names
<1>2. <<"eth", Free>> \in Spans /\ <<"eth", Free>> # NoName
  BY <1>1 DEF Spans, NoName
<1> DEFINE new == <<"eth", Free>>
<1> HIDE DEF new
<1>3. name' = [name EXCEPT ![c] = new] /\ new \in Spans /\ new # NoName /\ \A d \in Cards : name[d] # new
  BY <1>1, <1>2 DEF Appear, new
<1>4. name' \in [Cards -> {NoName} \cup Spans] /\ name'[c] = new /\ \A d \in Cards \ {c} : name'[d] = name[d]
  BY <1>3 DEF Names
<1>5. Named' = Named \cup {c}
  BY <1>3, <1>4 DEF Named
<1>6. \A d, e \in Named' : name'[d] = name'[e] => d = e
  BY <1>3, <1>4, <1>5, SpanNames DEF Names
<1> QED
  BY <1>4, <1>5, <1>6 DEF Names, new

\* A rename of one interface: the others keep their names.
LEMMA RenameNames ==
  ASSUME Names, NEW r \in [from : Spans, to : Spans], Rename(r)
  PROVE  /\ Names' /\ Named' = Named
         /\ \A c \in Cards : name'[c] = IF name[c] = r.from THEN r.to ELSE name[c]
<1>1. /\ name' = [c \in Cards |-> IF name[c] = r.from THEN r.to ELSE name[c]]
      /\ \A c \in Named : name[c] # r.to
  BY DEF Rename, Renamable
<1>2. r.from \in Spans /\ r.to \in Spans /\ r.from # NoName /\ r.to # NoName
  BY SpanNames
<1>3. name' \in [Cards -> {NoName} \cup Spans]
  BY <1>1, <1>2 DEF Names
<1>4. Named' = Named
  BY <1>1, <1>2 DEF Named
<1>5. \A c, d \in Named : name'[c] = name'[d] => c = d
  BY <1>1, SpanNames DEF Names
<1> QED
  BY <1>1, <1>3, <1>4, <1>5 DEF Names

\* Interfaces in the order of their numbers: each of them once.
LEMMA InterfacesSound ==
  ASSUME Names, NEW cards, cards \subseteq Named
  PROVE  /\ Interfaces(cards) \in Seq(cards) /\ Once(Interfaces(cards))
         /\ \A c \in cards : \E i \in 1..Len(Interfaces(cards)) : Interfaces(cards)[i] = c
<1> DEFINE R == {p \in cards \X cards : Before(p[1], p[2])}
           s == Listed(cards, R)
           n == Cardinality(cards)
<1>1. IsFiniteSet(cards)
  <2>1. cards \in SUBSET Cards
    BY SpanNames
  <2> QED
    BY <2>1, CardsFinite, FS_Subset
<1>2. \A c, d \in cards : <<c, d>> \in R <=> Before(c, d)
  OBVIOUS
<1>3. \A c \in cards : name[c][1] \in {"eth", "vibeldr"} /\ name[c][2] \in Nat /\ name[c] = <<name[c][1], name[c][2]>>
  <2>1. Cardinality(Cards) \in Nat
    BY CardsFinite
  <2> QED
    BY <2>1, SpanNames DEF Spans
<1>4. \A c, d \in cards : c # d => name[c][1] # name[d][1] \/ name[c][2] # name[d][2]
  BY <1>3 DEF Names
<1>5. Orders(R, cards)
  <2>1. \A c \in cards : ~Before(c, c)
    BY <1>3 DEF Before
  <2>2. \A c, d \in cards : c # d => Before(c, d) \/ Before(d, c)
    BY <1>3, <1>4 DEF Before
  <2>3. \A c, d, e \in cards : Before(c, d) /\ Before(d, e) => Before(c, e)
    BY <1>3 DEF Before
  <2> HIDE DEF R
  <2> QED
    BY <1>2, <2>1, <2>2, <2>3 DEF Orders
<1>6. /\ n \in Nat /\ s \in [1..n -> cards]
      /\ \A c \in cards : \E k \in 1..n : s[k] = c
      /\ \A j, k \in 1..n : s[j] = s[k] => j = k
  <2> HIDE DEF R
  <2> QED
    BY <1>1, <1>5, SortedList
<1>7. Interfaces(cards) = s
  BY DEF Interfaces
<1> HIDE DEF s, n
<1>8. s \in Seq(cards) /\ Len(s) = n
  BY <1>6
<1> QED
  BY <1>6, <1>7, <1>8 DEF Once

(***************************************************************************)
(* What every boot keeps: the page's invariant, one name for one interface,*)
(* and the types of the rest.  A card without an interface has an address  *)
(* that nobody wrote.                                                      *)
(***************************************************************************)

Renames == [from : Spans, to : Spans]

BootTypes ==
  /\ addr \in [Cards -> Addresses] /\ kept \in Seq(Keyed)
  /\ went \subseteq {"late", "up", "refused", "stuck"} /\ fresh \subseteq Cards
  /\ todo \in Seq(Renames) /\ at \in 0..Len(todo) + 1
  /\ phase \in {"rename", "undo"} => at \in 1..Len(todo)
  /\ Cards \ Named \subseteq fresh

Base == PageInv /\ Names /\ BootTypes

Booting == {"drivers", "rename", "undo", "macs", "dsm", "run"}

\* A step of the boot leaves the page's variables as the build left them.
LEMMA BootKeepsPage ==
  ASSUME PageInv, UNCHANGED pageVars, phase \in Booting \cup {"built"}, phase' \in Booting \cup {"built"},
         here' \subseteq Cards, backup'.model \in Models, backup'.macs \in Seq(Addresses)
  PROVE  PageInv'
<1>1. /\ nics' = nics /\ order' = order /\ macs' = macs /\ force' = force /\ count' = count
      /\ model' = model /\ fromBackup' = fromBackup /\ shown' = shown /\ made' = made /\ edits' = edits
  BY DEF pageVars, settings
<1>2. PageTypeOK'
  BY <1>1 DEF PageInv, PageTypeOK, Booting
<1>3. Aligned' /\ Settled'
  BY <1>1 DEF PageInv, Aligned, Settled, Wizard, Booting
<1>4. phase' \notin Wizard
  BY DEF Wizard, Booting
<1> QED
  BY <1>2, <1>3, <1>4 DEF PageInv, Wizard

LEMMA BuiltMacs ==
  ASSUME PageInv, phase \notin Wizard
  PROVE  /\ macs \in Seq(Addresses) /\ order \in Seq(Keyed) /\ order \in Seq(Cards) /\ Once(order)
         /\ backup.model \in Models /\ model \in Models /\ backup.macs \in Seq(Addresses)
         /\ nics \in Seq(Cards) /\ here \subseteq Cards
<1>1. macs \in Seq(Addresses \cup {Blank}) /\ \A i \in 1..Len(macs) : macs[i] \in Addresses
  BY DEF PageInv, PageTypeOK, Settled
<1>2. macs \in Seq(Addresses)
  BY <1>1
<1> QED
  BY <1>2, NicsOnce, KeyedAreCards DEF PageInv, PageTypeOK

\* The addresses that are written are the ones of the settings.
LEMMA HardwareTyped ==
  ASSUME macs \in Seq(Addresses), addr \in [Cards -> Addresses], fresh \subseteq Cards,
         Cards \ Named \subseteq fresh, NEW plan, ApplyHardwareMACs(plan)
  PROVE  /\ addr' \in [Cards -> Addresses] /\ fresh' \subseteq Cards /\ Cards \ Named \subseteq fresh'
<1> DEFINE target == MACTargets(plan)
           missing == {c \in Named : \E i \in target[c] : macs[i] # addr[c]}
<1>1. PICK refused \in SUBSET missing :
        /\ addr' = [c \in Cards |-> IF c \in missing \ refused
                                    THEN macs[CHOOSE i \in target[c] : TRUE] ELSE addr[c]]
        /\ fresh' = (fresh \ Named) \cup refused
  BY DEF ApplyHardwareMACs
<1>2. Named \subseteq Cards
  BY DEF Named
<1>3. \A c \in Named : target[c] \subseteq 1..Len(macs)
  BY DEF MACTargets
<1> HIDE DEF target
<1>4. \A c \in missing : macs[CHOOSE i \in target[c] : TRUE] \in Addresses
  BY <1>3
<1> QED
  BY <1>1, <1>2, <1>4

\* Where the plan names every card once, a card has the address of its place,
\* unless its driver refused; and an address that was right is left alone.
LEMMA HardwareSound ==
  ASSUME macs \in Seq(Addresses), addr \in [Cards -> Addresses],
         NEW plan \in Seq(Cards), Once(plan), plan # <<>>, ApplyHardwareMACs(plan)
  PROVE  /\ \A c \in Named \ fresh' : \A i \in 1..Len(macs) :
              i <= Len(plan) /\ plan[i] = c => addr'[c] = macs[i]
         /\ \A c \in Cards : addr'[c] # addr[c] =>
              c \in Named /\ \E i \in 1..Len(macs) : i <= Len(plan) /\ plan[i] = c /\ macs[i] # addr[c]
<1> DEFINE target == MACTargets(plan)
           missing == {c \in Named : \E i \in target[c] : macs[i] # addr[c]}
<1>1. PICK refused \in SUBSET missing :
        /\ addr' = [c \in Cards |-> IF c \in missing \ refused
                                    THEN macs[CHOOSE i \in target[c] : TRUE] ELSE addr[c]]
        /\ fresh' = (fresh \ Named) \cup refused
  BY DEF ApplyHardwareMACs
<1>2. Named \subseteq Cards
  BY DEF Named
<1>3. \A c \in Named : target[c] = {i \in 1..Len(macs) : i <= Len(plan) /\ plan[i] = c}
  BY DEF MACTargets
<1>4. \A i \in 1..Len(macs), j \in 1..Len(macs) :
        i <= Len(plan) /\ j <= Len(plan) /\ plan[i] = plan[j] => i = j
  BY DEF Once
<1>5. \A c \in Named : \A i, j \in target[c] : i = j
  BY <1>3, <1>4
<1> HIDE DEF target
<1>6. ASSUME NEW c \in Named \ fresh', NEW i \in 1..Len(macs), i <= Len(plan), plan[i] = c
      PROVE  addr'[c] = macs[i]
  <2>1. i \in target[c] /\ (CHOOSE k \in target[c] : TRUE) = i
    BY <1>3, <1>5, <1>6
  <2>2. c \notin refused /\ c \in Cards
    BY <1>1, <1>2, <1>6
  <2>3. CASE c \in missing
    BY <1>1, <2>1, <2>2, <2>3
  <2>4. CASE c \notin missing
    BY <1>1, <1>6, <2>1, <2>2, <2>4
  <2> QED
    BY <2>3, <2>4
<1>7. ASSUME NEW c \in Cards, addr'[c] # addr[c]
      PROVE  c \in Named /\ \E i \in 1..Len(macs) : i <= Len(plan) /\ plan[i] = c /\ macs[i] # addr[c]
  <2>1. c \in missing
    BY <1>1, <1>7
  <2> QED
    BY <1>3, <2>1
<1> QED
  BY <1>6, <1>7

\* The order that the renames are to bring about.
Final(plan) == OrderNICs(Interfaces(Numbered), plan)

LEMMA FinalSound ==
  ASSUME Names, NEW plan \in Seq(Cards), Once(plan)
  PROVE  /\ Final(plan) \in Seq(Cards) /\ Once(Final(plan))
         /\ \A i \in 1..Len(Final(plan)) : Final(plan)[i] \in Numbered
         /\ \A c \in Numbered : \E i \in 1..Len(Final(plan)) : Final(plan)[i] = c
         /\ \A i \in 1..Len(Within(plan, Numbered)) :
              i <= Len(Final(plan)) /\ Final(plan)[i] = Within(plan, Numbered)[i]
         /\ Len(Final(plan)) \in 0..Cardinality(Cards)
<1> DEFINE keys == Interfaces(Numbered)
<1>1. Numbered \subseteq Named /\ Numbered \subseteq Cards
  BY SpanNames
<1>2. /\ keys \in Seq(Numbered) /\ Once(keys)
      /\ \A c \in Numbered : \E i \in 1..Len(keys) : keys[i] = c
  BY <1>1, InterfacesSound
<1>3. Final(plan) = OrderNICs(keys, plan)
  BY DEF Final
<1> HIDE DEF keys
<1>4. keys \in Seq(Cards) /\ \A i \in 1..Len(keys) : keys[i] \in Numbered
  BY <1>1, <1>2
<1>5. ToSet(keys) = Numbered
  BY <1>2, <1>4 DEF ToSet
<1>6. /\ Final(plan) \in Seq(Cards) /\ Once(Final(plan))
      /\ \A i \in 1..Len(Final(plan)) : \E k \in 1..Len(keys) : Final(plan)[i] = keys[k]
      /\ \A k \in 1..Len(keys) : \E i \in 1..Len(Final(plan)) : Final(plan)[i] = keys[k]
      /\ Len(Within(plan, Numbered)) <= Len(Final(plan))
      /\ \A i \in 1..Len(Within(plan, Numbered)) : Final(plan)[i] = Within(plan, Numbered)[i]
  <2>1. /\ OrderNICs(keys, plan) \in Seq(Cards) /\ Once(OrderNICs(keys, plan))
        /\ \A i \in 1..Len(OrderNICs(keys, plan)) : \E k \in 1..Len(keys) : OrderNICs(keys, plan)[i] = keys[k]
        /\ \A k \in 1..Len(keys) : \E i \in 1..Len(OrderNICs(keys, plan)) : OrderNICs(keys, plan)[i] = keys[k]
        /\ Len(Within(plan, ToSet(keys))) <= Len(OrderNICs(keys, plan))
        /\ \A i \in 1..Len(Within(plan, ToSet(keys))) :
             OrderNICs(keys, plan)[i] = Within(plan, ToSet(keys))[i]
    BY <1>2, <1>4, OrderNICsSound
  <2> QED
    BY <1>3, <1>5, <2>1
<1>7. \A i \in 1..Len(Final(plan)) : Final(plan)[i] \in Numbered
  BY <1>4, <1>6
<1>8. \A c \in Numbered : \E i \in 1..Len(Final(plan)) : Final(plan)[i] = c
  BY <1>2, <1>6, ZenonT(40)
<1>9. Len(Final(plan)) \in Nat /\ Len(Final(plan)) <= Cardinality(Cards)
  BY <1>6, NoMoreThanCards
<1>10. Cardinality(Cards) \in Nat /\ Len(Within(plan, Numbered)) \in Nat
  BY CardsFinite, WithinPlaces
<1>11. \A i \in 1..Len(Within(plan, Numbered)) : i <= Len(Final(plan))
  BY <1>6, <1>9, <1>10
<1> QED
  BY <1>6, <1>7, <1>8, <1>9, <1>10, <1>11

\* The renames: first every interface out of the way, and then to its number.
LEMMA RenamesSound ==
  ASSUME Names, NEW plan \in Seq(Cards), Once(plan)
  PROVE  /\ NICRenames(plan) \in Seq(Renames)
         /\ NICRenames(plan) = <<>> => \A i \in 1..Len(Final(plan)) : name[Final(plan)[i]] = <<"eth", i - 1>>
         /\ NICRenames(plan) # <<>> =>
              /\ Len(Final(plan)) >= 1 /\ Len(NICRenames(plan)) = Len(Final(plan)) + Len(Final(plan))
              /\ \A i \in 1..Len(Final(plan)) :
                   /\ NICRenames(plan)[i] = [from |-> name[Final(plan)[i]], to |-> <<"vibeldr", i - 1>>]
                   /\ NICRenames(plan)[Len(Final(plan)) + i] =
                        [from |-> <<"vibeldr", i - 1>>, to |-> <<"eth", i - 1>>]
<1> DEFINE final == Final(plan)
           n == Len(final)
           away == [i \in 1..n |-> [from |-> name[final[i]], to |-> <<"vibeldr", i - 1>>]]
           back == [i \in 1..n |-> [from |-> <<"vibeldr", i - 1>>, to |-> <<"eth", i - 1>>]]
           right == \A i \in 1..Len(final) : name[final[i]] = <<"eth", i - 1>>
<1>1. NICRenames(plan) = IF right THEN <<>> ELSE away \o back
  BY DEF NICRenames, Final
<1>2. /\ final \in Seq(Cards) /\ n \in 0..Cardinality(Cards) /\ Cardinality(Cards) \in Nat
      /\ \A i \in 1..n : final[i] \in Numbered
  BY FinalSound, CardsFinite
<1>3. \A i \in 1..n : name[final[i]] \in Spans
  BY <1>2, SpanNames
<1>4. \A i \in 1..n : <<"vibeldr", i - 1>> \in Spans /\ <<"eth", i - 1>> \in Spans
  BY <1>2 DEF Spans
<1>5. n \in Nat /\ n = Len(final)
  BY <1>2
<1> HIDE DEF final, n
<1>6. away \in [1..n -> Renames] /\ back \in [1..n -> Renames]
  <2>1. \A i \in 1..n : [from |-> name[final[i]], to |-> <<"vibeldr", i - 1>>] \in Renames
    BY <1>3, <1>4 DEF Renames
  <2>2. \A i \in 1..n : [from |-> <<"vibeldr", i - 1>>, to |-> <<"eth", i - 1>>] \in Renames
    BY <1>4 DEF Renames
  <2> QED
    BY <2>1, <2>2, <1>5
<1>7. \A i \in 1..n : /\ away[i] = [from |-> name[final[i]], to |-> <<"vibeldr", i - 1>>]
                      /\ back[i] = [from |-> <<"vibeldr", i - 1>>, to |-> <<"eth", i - 1>>]
  BY <1>5
<1> HIDE DEF away, back
<1>8. away \in Seq(Renames) /\ back \in Seq(Renames) /\ Len(away) = n /\ Len(back) = n
  BY <1>5, <1>6
<1>9. /\ away \o back \in Seq(Renames) /\ Len(away \o back) = n + n
      /\ \A i \in 1..n : (away \o back)[i] = away[i] /\ (away \o back)[n + i] = back[i]
  <2>1. /\ away \o back \in Seq(Renames) /\ Len(away \o back) = Len(away) + Len(back)
        /\ \A i \in 1..Len(away) : (away \o back)[i] = away[i]
        /\ \A i \in 1..Len(back) : (away \o back)[Len(away) + i] = back[i]
    <3>1. away \o back \in Seq(Renames)
      BY <1>8
    <3>2. Len(away \o back) = Len(away) + Len(back)
      BY <1>8
    <3>3. ASSUME NEW i \in 1..Len(away) PROVE (away \o back)[i] = away[i]
      BY <1>8
    <3>4. ASSUME NEW i \in 1..Len(back) PROVE (away \o back)[Len(away) + i] = back[i]
      BY <1>8
    <3> QED
      BY <3>1, <3>2, <3>3, <3>4
  <2> QED
    BY <1>8, <2>1
<1> DEFINE both == away \o back
<1> HIDE DEF both
<1>10. ~right => n >= 1
  BY <1>5
<1>11. n >= 1 => both # <<>>
  BY <1>5, <1>9 DEF both
<1>12. right <=> \A i \in 1..n : name[final[i]] = <<"eth", i - 1>>
  BY <1>5
<1> HIDE DEF right
<1>13. NICRenames(plan) \in Seq(Renames)
  <2>1. <<>> \in Seq(Renames)
    OBVIOUS
  <2> QED
    BY <1>1, <1>9, <2>1 DEF both
<1>14. NICRenames(plan) = <<>> => right
  BY <1>1, <1>10, <1>11 DEF both
<1>15. NICRenames(plan) # <<>> => NICRenames(plan) = both /\ n >= 1
  BY <1>1, <1>10 DEF both
<1>16. both \in Seq(Renames) /\ Len(both) = n + n
       /\ \A i \in 1..n : /\ both[i] = [from |-> name[final[i]], to |-> <<"vibeldr", i - 1>>]
                           /\ both[n + i] = [from |-> <<"vibeldr", i - 1>>, to |-> <<"eth", i - 1>>]
  BY <1>7, <1>9 DEF both
<1>17. n = Len(Final(plan)) /\ final = Final(plan)
  BY <1>5 DEF final
<1>18. NICRenames(plan) = <<>> => \A i \in 1..Len(Final(plan)) : name[Final(plan)[i]] = <<"eth", i - 1>>
  BY <1>12, <1>14, <1>17
<1>19. NICRenames(plan) # <<>> =>
         /\ Len(Final(plan)) >= 1 /\ Len(NICRenames(plan)) = Len(Final(plan)) + Len(Final(plan))
         /\ \A i \in 1..Len(Final(plan)) :
              /\ NICRenames(plan)[i] = [from |-> name[Final(plan)[i]], to |-> <<"vibeldr", i - 1>>]
              /\ NICRenames(plan)[Len(Final(plan)) + i] =
                   [from |-> <<"vibeldr", i - 1>>, to |-> <<"eth", i - 1>>]
  BY <1>15, <1>16, <1>17
<1> QED
  BY <1>13, <1>18, <1>19

LEMMA RegisterBase == ASSUME Base, Register PROVE Base'
<1>1. PageInv /\ Names /\ BootTypes
  BY DEF Base
<1>2. PICK c \in here \ Named : Appear(c)
  BY DEF Register
<1>3. /\ phase' = phase /\ phase \in Booting /\ here' = here /\ UNCHANGED pageVars
      /\ backup' = backup /\ todo' = todo /\ at' = at /\ kept' = kept /\ fresh' = fresh
      /\ went' \subseteq went \cup {"late"}
  BY DEF Register, Booting
<1>4. here \subseteq Cards /\ backup.model \in Models /\ backup.macs \in Seq(Addresses)
  BY <1>1, <1>3, BuiltMacs DEF Wizard, Booting
<1>5. PageInv'
  BY <1>1, <1>3, <1>4, BootKeepsPage
<1>6. c \in Cards \ Named
  BY <1>2, <1>4
<1>7. Names' /\ Named' = Named \cup {c}
  BY <1>1, <1>2, <1>6, NewName
<1>8. addr' \in [Cards -> Addresses]
  <2>1. c \in Addresses
    BY <1>6 DEF Addresses
  <2> QED
    BY <1>1, <1>2, <2>1 DEF Appear, BootTypes
<1>9. BootTypes'
  BY <1>1, <1>3, <1>7, <1>8 DEF BootTypes
<1> QED
  BY <1>5, <1>7, <1>9 DEF Base

LEMMA ColdTypes ==
  ASSUME Cold, kept \in Seq(Keyed), kept' = kept, phase' \notin {"rename", "undo"}
  PROVE  Names' /\ BootTypes' /\ Named' = {}
<1>1. Named' = {}
  BY DEF Cold, Named
<1>2. Names'
  BY <1>1 DEF Cold, Names
<1>3. addr' \in [Cards -> Addresses]
  BY DEF Cold, Addresses
<1>4. todo' \in Seq(Renames) /\ at' \in 0..Len(todo') + 1
  BY DEF Cold
<1> QED
  BY <1>1, <1>2, <1>3, <1>4 DEF BootTypes, Cold

LEMMA PowerBase == ASSUME Base, PowerOn \/ PowerOff PROVE Base'
<1>1. PageInv /\ Names /\ BootTypes
  BY DEF Base
<1>2. /\ UNCHANGED pageVars /\ backup' = backup /\ kept' = kept /\ Cold
      /\ phase \in Booting \cup {"built"} /\ phase' \in {"built", "drivers"}
  BY DEF PowerOn, PowerOff, Booting
<1>3. here' \subseteq Cards
  BY LanPageAssumption DEF PowerOn, PowerOff
<1>4. backup.model \in Models /\ backup.macs \in Seq(Addresses)
  BY <1>1, <1>2, BuiltMacs DEF Wizard, Booting
<1>5. PageInv'
  BY <1>1, <1>2, <1>3, <1>4, BootKeepsPage DEF Booting
<1>6. Names' /\ BootTypes'
  BY <1>1, <1>2, ColdTypes DEF BootTypes
<1> QED
  BY <1>5, <1>6 DEF Base

LEMMA SameNames == ASSUME name' = name PROVE Named' = Named /\ (Names => Names')
BY DEF Named, Names

LEMMA PlanBase == ASSUME Base, ApplyNICPlan PROVE Base'
<1>1. PageInv /\ Names /\ BootTypes
  BY DEF Base
<1>2. /\ UNCHANGED pageVars /\ backup' = backup /\ kept' = kept /\ here' = here /\ name' = name
      /\ addr' = addr /\ fresh' = fresh /\ at' = 1 /\ phase = "drivers" /\ phase' \in {"macs", "rename"}
      /\ (phase' = "rename" => todo' # <<>>)
      /\ went' \subseteq went \cup {"up"}
      /\ todo' \in {<<>>, NICRenames(order)}
  BY DEF ApplyNICPlan
<1>3. /\ here \subseteq Cards /\ backup.model \in Models /\ backup.macs \in Seq(Addresses)
      /\ order \in Seq(Cards) /\ Once(order)
  BY <1>1, <1>2, BuiltMacs DEF Wizard
<1>4. PageInv'
  BY <1>1, <1>2, <1>3, BootKeepsPage DEF Booting
<1>5. NICRenames(order) \in Seq(Renames) /\ <<>> \in Seq(Renames)
  BY <1>1, <1>3, RenamesSound
<1>6. todo' \in Seq(Renames) /\ at' \in 0..Len(todo') + 1 /\ (phase' \in {"rename", "undo"} => at' \in 1..Len(todo'))
  <2>1. todo' \in Seq(Renames)
    BY <1>2, <1>5
  <2>2. Len(todo') \in Nat /\ (todo' # <<>> => Len(todo') >= 1)
    BY <2>1
  <2> QED
    BY <1>2, <2>1, <2>2
<1>7. Names' /\ Named' = Named
  BY <1>1, <1>2, SameNames
<1>8. BootTypes'
  BY <1>1, <1>2, <1>6, <1>7 DEF BootTypes
<1> QED
  BY <1>4, <1>7, <1>8 DEF Base

\* The step that is taken, and the same one back, between names.
LEMMA StepTyped ==
  ASSUME BootTypes, phase \in {"rename", "undo"}
  PROVE  /\ at \in 1..Len(todo) /\ Len(todo) \in Nat /\ todo[at] \in Renames
         /\ [from |-> todo[at].to, to |-> todo[at].from] \in Renames
<1>1. at \in 1..Len(todo) /\ todo \in Seq(Renames)
  BY DEF BootTypes
<1>2. Len(todo) \in Nat /\ todo[at] \in Renames
  BY <1>1
<1> QED
  BY <1>1, <1>2 DEF Renames

LEMMA RenameBase == ASSUME Base, RenameNext \/ Undo PROVE Base' /\ Named' = Named
<1>1. PageInv /\ Names /\ BootTypes
  BY DEF Base
<1>2. /\ UNCHANGED pageVars /\ backup' = backup /\ kept' = kept /\ here' = here
      /\ addr' = addr /\ fresh' = fresh /\ todo' = todo
      /\ phase \in {"rename", "undo"}
  BY DEF RenameNext, Undo
<1> DEFINE back == [from |-> todo[at].to, to |-> todo[at].from]
<1>3. at \in 1..Len(todo) /\ Len(todo) \in Nat /\ todo[at] \in Renames /\ back \in Renames
  BY <1>1, <1>2, StepTyped
<1>4. name' = name \/ Rename(todo[at]) \/ Rename(back)
  BY DEF RenameNext, Undo
<1>5. Names' /\ Named' = Named
  <2>1. CASE name' = name
    BY <1>1, <2>1, SameNames
  <2>2. CASE Rename(todo[at])
    BY <1>1, <1>3, <2>2, RenameNames DEF Renames
  <2> HIDE DEF back
  <2>3. CASE Rename(back)
    BY <1>1, <1>3, <2>3, RenameNames DEF Renames
  <2> QED
    BY <1>4, <2>1, <2>2, <2>3
<1>6. /\ phase' \in {"rename", "undo", "macs"} /\ at' \in 0..Len(todo)
      /\ (phase' # "macs" => at' \in 1..Len(todo))
  <2>1. CASE RenameNext
    BY <1>3, <2>1 DEF RenameNext
  <2>2. CASE Undo
    BY <1>3, <2>2 DEF Undo
  <2> QED
    BY <2>1, <2>2
<1>7. went' \subseteq went \cup {"refused", "stuck"}
  BY DEF RenameNext, Undo
<1>8. here \subseteq Cards /\ backup.model \in Models /\ backup.macs \in Seq(Addresses)
  BY <1>1, <1>2, BuiltMacs DEF Wizard
<1>9. PageInv'
  BY <1>1, <1>2, <1>6, <1>8, BootKeepsPage DEF Booting
<1>10. BootTypes'
  BY <1>1, <1>2, <1>3, <1>5, <1>6, <1>7 DEF BootTypes
<1> QED
  BY <1>5, <1>9, <1>10 DEF Base

LEMMA PivotBase == ASSUME Base, Pivot PROVE Base' /\ Named' = Named
<1>1. PageInv /\ Names /\ BootTypes
  BY DEF Base
<1>2. /\ UNCHANGED pageVars /\ here' = here /\ name' = name /\ ApplyHardwareMACs(order)
      /\ kept' \in {order, kept, <<>>} /\ backup' = [model |-> model, macs |-> macs]
      /\ todo' = <<>> /\ at' = 0 /\ went' = {} /\ phase = "macs" /\ phase' = "dsm"
  BY DEF Pivot
<1>3. /\ here \subseteq Cards /\ model \in Models /\ macs \in Seq(Addresses) /\ order \in Seq(Keyed)
  BY <1>1, <1>2, BuiltMacs DEF Wizard
<1>4. PageInv'
  BY <1>1, <1>2, <1>3, BootKeepsPage DEF Booting
<1>5. Names' /\ Named' = Named
  BY <1>1, <1>2, SameNames
<1>6. addr' \in [Cards -> Addresses] /\ fresh' \subseteq Cards /\ Cards \ Named \subseteq fresh'
  BY <1>1, <1>2, <1>3, HardwareTyped DEF BootTypes
<1>7. kept' \in Seq(Keyed)
  <2>1. <<>> \in Seq(Keyed)
    OBVIOUS
  <2> QED
    BY <1>1, <1>2, <1>3, <2>1 DEF BootTypes
<1>8. todo' \in Seq(Renames) /\ at' \in 0..Len(todo') + 1
  BY <1>2
<1>9. BootTypes'
  BY <1>2, <1>5, <1>6, <1>7, <1>8 DEF BootTypes
<1> QED
  BY <1>4, <1>5, <1>9 DEF Base

LEMMA DsmBase == ASSUME Base, DsmNames \/ Reload \/ RunAgent PROVE Base' /\ Named' = Named
<1>1. PageInv /\ Names /\ BootTypes
  BY DEF Base
<1>2. /\ UNCHANGED pageVars /\ here' = here /\ backup' = backup /\ todo' = todo /\ at' = at
      /\ kept' = kept /\ went' = went /\ phase = "dsm" /\ phase' \in {"dsm", "run"}
  BY DEF DsmNames, Reload, RunAgent
<1>3. /\ here \subseteq Cards /\ backup.model \in Models /\ backup.macs \in Seq(Addresses)
      /\ macs \in Seq(Addresses)
  BY <1>1, <1>2, BuiltMacs DEF Wizard
<1>4. PageInv'
  BY <1>1, <1>2, <1>3, BootKeepsPage DEF Booting
<1>5. Names' /\ Named' = Named
  <2>1. CASE name' = name
    BY <1>1, <2>1, SameNames
  <2>2. CASE DsmNames
    <3>1. PICK n \in [Named -> {name[c] : c \in Named}] :
            IsInjective(n) /\ name' = [c \in Cards |-> IF c \in Named THEN n[c] ELSE NoName]
      BY <2>2 DEF DsmNames
    <3>2. \A c \in Named : c \in Cards /\ n[c] \in Spans /\ n[c] # NoName
      BY <1>1, SpanNames
    <3>3. name' \in [Cards -> {NoName} \cup Spans] /\ Named' = Named
      BY <3>1, <3>2 DEF Named
    <3>4. \A c, d \in Named : n[c] = n[d] => c = d
      BY <3>1 DEF IsInjective
    <3>5. \A c, d \in Named' : name'[c] = name'[d] => c = d
      BY <3>1, <3>2, <3>3, <3>4
    <3> QED
      BY <3>3, <3>5 DEF Names
  <2> QED
    BY <2>1, <2>2 DEF Reload, RunAgent
<1>6. addr' \in [Cards -> Addresses] /\ fresh' \subseteq Cards /\ Cards \ Named \subseteq fresh'
  <2>1. CASE RunAgent
    BY <1>1, <1>3, <2>1, HardwareTyped DEF RunAgent, BootTypes
  <2>2. CASE DsmNames
    BY <1>1, <2>2 DEF DsmNames, BootTypes
  <2>3. CASE Reload
    <3>1. PICK c \in Named : addr' = [addr EXCEPT ![c] = c] /\ fresh' = fresh \cup {c}
      BY <2>3 DEF Reload
    <3>2. c \in Cards /\ c \in Addresses
      BY DEF Named, Addresses
    <3> QED
      BY <1>1, <3>1, <3>2 DEF BootTypes
  <2> QED
    BY <2>1, <2>2, <2>3
<1>7. BootTypes'
  BY <1>1, <1>2, <1>5, <1>6 DEF BootTypes
<1> QED
  BY <1>4, <1>5, <1>7 DEF Base

LEMMA PagePhases == ASSUME PageNext PROVE phase \notin Booting /\ phase' \notin Booting
BY DEF PageNext, Start, ChangeModel, Enter, Back, Choose, Type, Generate, MoveNIC, Confirm, Build, Edit, Booting

LEMMA PageBase == ASSUME Base, PageNext, UNCHANGED bootVars PROVE Base'
<1>1. PageInv'
  BY PageStep DEF Base
<1>2. /\ name' = name /\ addr' = addr /\ todo' = todo /\ at' = at /\ kept' = kept /\ went' = went
      /\ fresh' = fresh
  BY DEF bootVars
<1>3. Names' /\ Named' = Named
  BY <1>2, SameNames DEF Base
<1>4. phase' \notin {"rename", "undo"}
  BY PagePhases DEF Booting
<1>5. BootTypes'
  BY <1>2, <1>3, <1>4 DEF Base, BootTypes
<1> QED
  BY <1>1, <1>3, <1>5 DEF Base

LEMMA BaseStep == ASSUME Base, [Next]_vars PROVE Base'
<1>1. CASE UNCHANGED vars
  <2>1. /\ phase' = phase /\ here' = here /\ nics' = nics /\ order' = order /\ macs' = macs /\ force' = force
        /\ count' = count /\ model' = model /\ fromBackup' = fromBackup /\ shown' = shown /\ made' = made
        /\ edits' = edits /\ backup' = backup /\ name' = name /\ addr' = addr /\ todo' = todo /\ at' = at
        /\ kept' = kept /\ went' = went /\ fresh' = fresh
    BY <1>1 DEF vars, pageVars, settings, bootVars
  <2>2. PageTypeOK'
    BY <2>1 DEF Base, PageInv, PageTypeOK
  <2>3. Shown' = Shown
    BY <2>1 DEF Shown, MacAt
  <2>4. Aligned' /\ (Settled => Settled')
    BY <2>1 DEF Base, PageInv, Aligned, Settled
  <2>5. PageInv'
    BY <2>1, <2>2, <2>3, <2>4 DEF Base, PageInv
  <2>6. Names' /\ Named' = Named
    BY <2>1, SameNames DEF Base
  <2>7. BootTypes'
    BY <2>1, <2>6 DEF Base, BootTypes
  <2> QED
    BY <2>5, <2>6, <2>7 DEF Base
<1>2. CASE PageNext /\ UNCHANGED bootVars
  BY <1>2, PageBase
<1>3. CASE Next /\ ~(PageNext /\ UNCHANGED bootVars)
  BY <1>3, RegisterBase, PowerBase, PlanBase, RenameBase, PivotBase, DsmBase DEF Next
<1> QED
  BY <1>1, <1>2, <1>3

LEMMA BaseStarts == ASSUME Init PROVE Base
<1>1. PageInv
  BY PageStarts DEF Init
<1>2. Named = {}
  BY DEF Init, Named
<1>3. Names
  BY <1>2 DEF Init, Names
<1>4. addr \in [Cards -> Addresses] /\ kept \in Seq(Keyed) /\ todo \in Seq(Renames) /\ at \in 0..Len(todo) + 1
  BY DEF Init, Addresses
<1>5. phase \notin {"rename", "undo"}
  BY DEF Init, PageInit
<1>6. BootTypes
  BY <1>2, <1>4, <1>5 DEF Init, BootTypes
<1> QED
  BY <1>1, <1>3, <1>6 DEF Base

(***************************************************************************)
(* The addresses.                                                          *)
(***************************************************************************)

\* After a pivot with a plan, and after an agent that found this plan, the
\* cards of the plan have the addresses of their places, but for those whose
\* driver refused or was loaded anew.
Carried ==
  (phase \in {"dsm", "run"} /\ order # <<>> /\ (phase = "run" => kept = order)) =>
    \A c \in Named \ fresh : \A i \in 1..Len(macs) : i <= Len(order) /\ order[i] = c => addr[c] = macs[i]

LEMMA BaseFacts ==
  ASSUME Base, phase \notin Wizard
  PROVE  /\ macs \in Seq(Addresses) /\ order \in Seq(Cards) /\ Once(order)
         /\ addr \in [Cards -> Addresses] /\ Named \subseteq Cards /\ Cards \ Named \subseteq fresh
BY BuiltMacs, SpanNames DEF Base, BootTypes

LEMMA CarriedStep == ASSUME Base, Carried, [Next]_vars PROVE Carried'
<1>1. CASE UNCHANGED vars
  BY <1>1 DEF vars, pageVars, settings, bootVars, Carried, Named
<1>2. CASE phase' \notin {"dsm", "run"}
  BY <1>2 DEF Carried
<1>3. CASE Pivot
  <2>1. /\ ApplyHardwareMACs(order) /\ order' = order /\ macs' = macs /\ phase = "macs"
    BY <1>3 DEF Pivot, pageVars, settings
  <2>2. Named' = Named
    BY <1>3, PivotBase
  <2> SUFFICES ASSUME order # <<>>
               PROVE  \A c \in Named \ fresh' : \A i \in 1..Len(macs) :
                        i <= Len(order) /\ order[i] = c => addr'[c] = macs[i]
    BY <2>1, <2>2 DEF Carried
  <2> QED
    BY <2>1, BaseFacts, HardwareSound DEF Wizard
<1>4. CASE Register /\ phase = "dsm"
  <2>1. PICK c \in here \ Named : Appear(c)
    BY <1>4 DEF Register
  <2>2. /\ order' = order /\ macs' = macs /\ fresh' = fresh /\ phase' = phase /\ here \subseteq Cards /\ Names
    BY <1>4, BuiltMacs DEF Register, pageVars, settings, Base, Wizard
  <2>3. Named' = Named \cup {c} /\ c \in fresh
    BY <2>1, <2>2, NewName DEF Base, BootTypes
  <2>4. \A d \in Named \ fresh : addr'[d] = addr[d]
    BY <1>4, <2>1, <2>3, BaseFacts DEF Appear, Wizard
  <2>5. Named' \ fresh' = Named \ fresh
    BY <2>2, <2>3
  <2> QED
    BY <1>4, <2>2, <2>4, <2>5 DEF Carried
<1>5. CASE DsmNames
  <2>1. /\ order' = order /\ macs' = macs /\ fresh' = fresh /\ addr' = addr /\ phase' = phase /\ phase = "dsm"
        /\ Named' = Named
    BY <1>5, DsmBase DEF DsmNames, pageVars, settings
  <2> QED
    BY <2>1 DEF Carried
<1>6. CASE Reload
  <2>1. /\ order' = order /\ macs' = macs /\ phase' = phase /\ phase = "dsm" /\ Named' = Named
    BY <1>6, DsmBase DEF Reload, pageVars, settings
  <2>2. PICK c \in Named : addr' = [addr EXCEPT ![c] = c] /\ fresh' = fresh \cup {c}
    BY <1>6 DEF Reload
  <2>3. \A d \in Named' \ fresh' : d \in Named \ fresh /\ addr'[d] = addr[d]
    BY <2>1, <2>2, BaseFacts DEF Wizard
  <2> QED
    BY <2>1, <2>3 DEF Carried
<1>7. CASE RunAgent
  <2>1. /\ ApplyHardwareMACs(kept) /\ order' = order /\ macs' = macs /\ kept' = kept /\ phase = "dsm" /\ phase' = "run"
        /\ Named' = Named
    BY <1>7, DsmBase DEF RunAgent, pageVars, settings
  <2> SUFFICES ASSUME order # <<>>, kept = order
               PROVE  \A c \in Named \ fresh' : \A i \in 1..Len(macs) :
                        i <= Len(order) /\ order[i] = c => addr'[c] = macs[i]
    BY <2>1 DEF Carried
  <2> QED
    BY <2>1, BaseFacts, HardwareSound DEF Wizard
<1>8. [Next]_vars => \/ UNCHANGED vars \/ phase' \notin {"dsm", "run"} \/ Pivot
                     \/ (Register /\ phase = "dsm") \/ DsmNames \/ Reload \/ RunAgent
  <2>1. PageNext => phase' \notin {"dsm", "run"}
    BY PagePhases DEF Booting
  <2>2. PowerOn \/ ApplyNICPlan \/ RenameNext \/ Undo \/ PowerOff => phase' \notin {"dsm", "run"}
    BY DEF PowerOn, ApplyNICPlan, RenameNext, Undo, PowerOff
  <2>3. Register => phase = "dsm" \/ phase' \notin {"dsm", "run"}
    BY DEF Register
  <2> QED
    BY <2>1, <2>2, <2>3 DEF Next
<1> QED
  BY <1>1, <1>2, <1>3, <1>4, <1>5, <1>6, <1>7, <1>8

\* A card that comes before every card without a key on the page is in the plan
\* at its own place, and has the address of this place.
LEMMA CarriedIsShown == ASSUME Base, Carried PROVE CarriesShown
<1> SUFFICES ASSUME phase = "run", kept = order, ~made, NEW c \in Named \ fresh, c \in DOMAIN shown, InStep(c)
             PROVE  addr[c] = shown[c]
  BY DEF CarriesShown
<1>1. PICK i \in 1..Len(nics) : nics[i] = c /\ \A j \in 1..i : nics[j] \in Keyed
  BY DEF InStep
<1>2. i <= Len(order) /\ order[i] = c
  BY <1>1 DEF Base, PageInv, Aligned
<1>3. Len(macs) = Len(nics) /\ shown[c] = macs[i]
  BY <1>1 DEF Base, PageInv, Settled, Wizard
<1>4. order # <<>>
  BY <1>1, <1>2
<1> QED
  BY <1>1, <1>2, <1>3, <1>4 DEF Carried

LEMMA AgentIsQuiet ==
  ASSUME Base, Carried, [Next]_vars
  PROVE  (phase = "dsm" /\ phase' = "run" /\ kept = order /\ order # <<>>) =>
           \A c \in Cards : addr'[c] # addr[c] => c \in fresh
<1> SUFFICES ASSUME phase = "dsm", phase' = "run", kept = order, order # <<>>,
                    NEW c \in Cards, addr'[c] # addr[c]
             PROVE  c \in fresh
  OBVIOUS
<1>1. RunAgent
  <2>1. ~UNCHANGED vars
    BY DEF vars
  <2>2. ~PageNext
    BY PagePhases DEF Booting
  <2> QED
    BY <2>1, <2>2 DEF Next, PowerOn, Register, ApplyNICPlan, RenameNext, Undo, Pivot, DsmNames, Reload, PowerOff
<1>2. c \in Named /\ \E i \in 1..Len(macs) : i <= Len(order) /\ order[i] = c /\ macs[i] # addr[c]
  BY <1>1, BaseFacts, HardwareSound DEF RunAgent, Wizard
<1> QED
  BY <1>2 DEF Carried

LEMMA AddressesInv == Spec => [](Base /\ Carried)
<1>1. Init => Base /\ Carried
  <2>1. Init => Carried
    BY DEF Init, PageInit, Carried
  <2> QED
    BY <2>1, BaseStarts
<1>2. Base /\ Carried /\ [Next]_vars => (Base /\ Carried)'
  BY BaseStep, CarriedStep
<1> QED
  BY <1>1, <1>2, PTL DEF Spec

\* A card that is moved takes the address set for it along.
THEOREM AddressesTravelCorrect == Spec => AddressesTravel
<1>1. Base => (MoveNIC => Shown' = Shown)
  BY MoveKeepsShown DEF Base
<1>2. Base => [MoveNIC => Shown' = Shown]_<<phase, here, pageVars, backup>>
  BY <1>1
<1> QED
  BY <1>2, AddressesInv, PTL DEF AddressesTravel

\* A running DSM has the addresses that the page showed, and the agent changes
\* none that is right.
THEOREM AddressesAsShownCorrect == Spec => AddressesAsShown
<1>1. Base /\ Carried => CarriesShown
  BY CarriedIsShown
<1>2. Base /\ Carried /\ [Next]_vars =>
        [(phase = "dsm" /\ phase' = "run" /\ kept = order /\ order # <<>>) =>
           \A c \in Cards : addr'[c] # addr[c] => c \in fresh]_vars
  BY AgentIsQuiet
<1>3. Spec => []CarriesShown
  BY <1>1, AddressesInv, PTL
<1>4. Spec => AgentQuiet
  BY <1>2, AddressesInv, PTL DEF Spec, AgentQuiet
<1> QED
  BY <1>3, <1>4 DEF AddressesAsShown

(***************************************************************************)
(* The names.                                                              *)
(***************************************************************************)

Whole == {name[c] : c \in Named} = {<<"eth", n - 1>> : n \in 1..Cardinality(Named)}
Planned ==
  \A i \in 1..Len(Within(order, Named)) : name[Within(order, Named)[i]] = <<"eth", i - 1>>

\* The renames bring the interfaces into the order of final, which starts with
\* the cards of the plan.
Towards(final) ==
  /\ final \in Seq(Cards) /\ Once(final) /\ Len(final) >= 1
  /\ \A i \in 1..Len(final) : final[i] \in Named
  /\ \A c \in Named : \E i \in 1..Len(final) : final[i] = c
  /\ \A i \in 1..Len(Within(order, Named)) : i <= Len(final) /\ final[i] = Within(order, Named)[i]
  /\ Len(todo) = Len(final) + Len(final)
  /\ \A i \in 1..Len(final) :
       /\ todo[i].from[1] = "eth" /\ todo[i].to = <<"vibeldr", i - 1>>
       /\ todo[Len(final) + i].from = <<"vibeldr", i - 1>>
       /\ todo[Len(final) + i].to = <<"eth", i - 1>>
  /\ \A i, j \in 1..Len(final) : todo[i].from = todo[j].from => i = j
  /\ {todo[i].from : i \in 1..Len(final)} = {<<"eth", n - 1>> : n \in 1..Cardinality(Named)}
  /\ Cardinality(Named) = Len(final)

\* What the i-th interface is called when d of the renames are done.
Stand(final, i, d) ==
  IF d < i THEN todo[i].from
  ELSE IF d < Len(final) + i THEN <<"vibeldr", i - 1>> ELSE <<"eth", i - 1>>

\* The number of renames that are done.
Done == IF phase = "rename" THEN at - 1 ELSE at

Stands(final, d) == \A i \in 1..Len(final) : name[final[i]] = Stand(final, i, d)

\* Unless a card came late or an undo was refused, the interfaces are where so
\* many of the renames take them, and only a refused rename leads back.
Moving ==
  (phase \in {"rename", "undo"} /\ went \cap {"late", "stuck"} = {}) =>
    /\ \E final \in Seq(Cards) : Towards(final) /\ Stands(final, Done)
    /\ phase = "undo" => "refused" \in went

\* One rename moves one interface; nothing stands in its way, there or back.
LEMMA OneMoves ==
  ASSUME NEW final \in Seq(Cards), Towards(final), NEW k \in 1..Len(todo)
  PROVE  LET m == IF k <= Len(final) THEN k ELSE k - Len(final)
         IN  /\ m \in 1..Len(final) /\ Len(final) \in Nat
             /\ Stand(final, m, k - 1) = todo[k].from /\ Stand(final, m, k) = todo[k].to
             /\ \A i \in 1..Len(final) : i # m =>
                  /\ Stand(final, i, k - 1) = Stand(final, i, k)
                  /\ Stand(final, i, k) # todo[k].from /\ Stand(final, i, k) # todo[k].to
             /\ todo[k].from # todo[k].to
<1> DEFINE n == Len(final)
           m == IF k <= Len(final) THEN k ELSE k - Len(final)
<1>1. n \in Nat /\ n >= 1 /\ Len(todo) = n + n /\ k \in 1..(n + n)
  BY DEF Towards
<1>2. /\ \A i \in 1..n : todo[i].from[1] = "eth" /\ todo[i].to = <<"vibeldr", i - 1>>
      /\ \A i \in 1..n : todo[n + i].from = <<"vibeldr", i - 1>> /\ todo[n + i].to = <<"eth", i - 1>>
      /\ \A i, j \in 1..n : todo[i].from = todo[j].from => i = j
  BY DEF Towards
<1>3. \A i \in 1..n, d \in 0..(n + n) :
        Stand(final, i, d) = IF d < i THEN todo[i].from
                             ELSE IF d < n + i THEN <<"vibeldr", i - 1>> ELSE <<"eth", i - 1>>
  BY DEF Stand
<1> HIDE DEF n
<1>4. CASE k <= n
  <2>1. k \in 1..n /\ m = k
    BY <1>1, <1>4 DEF n
  <2>2. Stand(final, k, k - 1) = todo[k].from /\ Stand(final, k, k) = todo[k].to
    <3>1. k - 1 \in 0..(n + n) /\ k \in 0..(n + n) /\ k - 1 < k /\ ~(k < k) /\ k < n + k
      BY <1>1
    <3>2. Stand(final, k, k - 1) = todo[k].from
      BY <1>3, <2>1, <3>1
    <3>3. Stand(final, k, k) = <<"vibeldr", k - 1>>
      BY <1>3, <2>1, <3>1
    <3> QED
      BY <1>2, <2>1, <3>2, <3>3
  <2>3. todo[k].from # todo[k].to
    BY <1>2, <2>1
  <2>4. ASSUME NEW i \in 1..n, i # k
        PROVE  /\ Stand(final, i, k - 1) = Stand(final, i, k)
               /\ Stand(final, i, k) # todo[k].from /\ Stand(final, i, k) # todo[k].to
    <3>1. CASE k < i
      <4>1. Stand(final, i, k - 1) = todo[i].from /\ Stand(final, i, k) = todo[i].from
        BY <1>1, <1>3, <2>1, <3>1
      <4> QED
        BY <1>2, <2>1, <2>4, <4>1
    <3>2. CASE i < k
      <4>1. Stand(final, i, k - 1) = <<"vibeldr", i - 1>> /\ Stand(final, i, k) = <<"vibeldr", i - 1>>
        BY <1>1, <1>3, <2>1, <3>2
      <4>2. <<"vibeldr", i - 1>> # <<"vibeldr", k - 1>>
        BY <2>1, <2>4, <1>1
      <4> QED
        BY <1>2, <2>1, <4>1, <4>2
    <3> QED
      BY <1>1, <2>1, <2>4, <3>1, <3>2
  <2> QED
    BY <1>1, <2>1, <2>2, <2>3, <2>4 DEF n
<1>5. CASE k > n
  <2> DEFINE j == k - n
  <2>1. j \in 1..n /\ k = n + j /\ m = j
    BY <1>1, <1>5 DEF n
  <2> HIDE DEF j
  <2>2. Stand(final, j, k - 1) = todo[k].from /\ Stand(final, j, k) = todo[k].to
    <3>1. /\ k - 1 \in 0..(n + n) /\ k \in 0..(n + n) /\ ~(k - 1 < j) /\ ~(k < j)
          /\ k - 1 < n + j /\ ~(k < n + j)
      BY <1>1, <2>1
    <3>2. Stand(final, j, k - 1) = <<"vibeldr", j - 1>>
      BY <1>3, <2>1, <3>1
    <3>3. Stand(final, j, k) = <<"eth", j - 1>>
      BY <1>3, <2>1, <3>1
    <3>4. todo[k].from = <<"vibeldr", j - 1>> /\ todo[k].to = <<"eth", j - 1>>
      BY <1>2, <2>1
    <3> QED
      BY <3>2, <3>3, <3>4
  <2>3. todo[k].from # todo[k].to
    BY <1>2, <2>1
  <2>4. ASSUME NEW i \in 1..n, i # j
        PROVE  /\ Stand(final, i, k - 1) = Stand(final, i, k)
               /\ Stand(final, i, k) # todo[k].from /\ Stand(final, i, k) # todo[k].to
    <3>1. CASE j < i
      <4>a. /\ k - 1 \in 0..(n + n) /\ k \in 0..(n + n) /\ ~(k - 1 < i) /\ ~(k < i)
            /\ k - 1 < n + i /\ k < n + i
        BY <1>1, <2>1, <3>1
      <4>1. Stand(final, i, k - 1) = <<"vibeldr", i - 1>> /\ Stand(final, i, k) = <<"vibeldr", i - 1>>
        BY <1>3, <4>a
      <4>2. <<"vibeldr", i - 1>> # <<"vibeldr", j - 1>>
        BY <2>1, <2>4, <1>1
      <4> QED
        BY <1>2, <2>1, <4>1, <4>2, SMTT(30)
    <3>2. CASE i < j
      <4>a. /\ k - 1 \in 0..(n + n) /\ k \in 0..(n + n) /\ ~(k - 1 < i) /\ ~(k < i)
            /\ ~(k - 1 < n + i) /\ ~(k < n + i)
        BY <1>1, <2>1, <3>2
      <4>1. Stand(final, i, k - 1) = <<"eth", i - 1>> /\ Stand(final, i, k) = <<"eth", i - 1>>
        BY <1>3, <4>a
      <4>2. <<"eth", i - 1>> # <<"eth", j - 1>> /\ <<"eth", i - 1>> # <<"vibeldr", j - 1>>
        BY <2>1, <2>4, <1>1
      <4>3. todo[k].from = <<"vibeldr", j - 1>> /\ todo[k].to = <<"eth", j - 1>>
        BY <1>2, <2>1
      <4> QED
        BY <4>1, <4>2, <4>3
    <3> QED
      BY <1>1, <2>1, <2>4, <3>1, <3>2
  <2> QED
    BY <1>1, <2>1, <2>2, <2>3, <2>4 DEF n
<1> QED
  BY <1>1, <1>4, <1>5

LEMMA Moved ==
  ASSUME Names, NEW final \in Seq(Cards), Towards(final), NEW k \in 1..Len(todo), todo \in Seq(Renames),
         NEW back, back = [from |-> todo[k].to, to |-> todo[k].from]
  PROVE  /\ Stands(final, k - 1) => Renamable(todo[k])
         /\ Stands(final, k) => Renamable(back)
         /\ Stands(final, k - 1) /\ Rename(todo[k]) /\ todo' = todo => Stands(final, k)'
         /\ Stands(final, k) /\ Rename(back) /\ todo' = todo => Stands(final, k - 1)'
<1> DEFINE m == IF k <= Len(final) THEN k ELSE k - Len(final)
<1>1. /\ m \in 1..Len(final) /\ Len(final) \in Nat
      /\ Stand(final, m, k - 1) = todo[k].from /\ Stand(final, m, k) = todo[k].to
      /\ \A i \in 1..Len(final) : i # m =>
           /\ Stand(final, i, k - 1) = Stand(final, i, k)
           /\ Stand(final, i, k) # todo[k].from /\ Stand(final, i, k) # todo[k].to
      /\ todo[k].from # todo[k].to
  BY OneMoves
<1> HIDE DEF m
<1>2. /\ \A i \in 1..Len(final) : final[i] \in Named /\ final[i] \in Cards
      /\ \A c \in Named : \E i \in 1..Len(final) : final[i] = c
      /\ Once(final)
  BY SpanNames DEF Towards
<1>3. back.from = todo[k].to /\ back.to = todo[k].from
  OBVIOUS
<1>4. Stands(final, k - 1) => Renamable(todo[k])
  <2> SUFFICES ASSUME Stands(final, k - 1) PROVE Renamable(todo[k])
    OBVIOUS
  <2>1. \A i \in 1..Len(final) : name[final[i]] = Stand(final, i, k - 1)
    BY DEF Stands
  <2>2. \E c \in Named : name[c] = todo[k].from
    BY <1>1, <1>2, <2>1
  <2>3. \A c \in Named : name[c] # todo[k].to
    <3> SUFFICES ASSUME NEW c \in Named PROVE name[c] # todo[k].to
      OBVIOUS
    <3>1. PICK i \in 1..Len(final) : final[i] = c
      BY <1>2
    <3>2. name[c] = Stand(final, i, k - 1)
      BY <2>1, <3>1
    <3>3. CASE i = m
      BY <1>1, <3>2, <3>3
    <3>4. CASE i # m
      BY <1>1, <3>2, <3>4
    <3> QED
      BY <3>3, <3>4
  <2> QED
    BY <2>2, <2>3 DEF Renamable
<1>5. Stands(final, k) => Renamable(back)
  <2> SUFFICES ASSUME Stands(final, k) PROVE Renamable(back)
    OBVIOUS
  <2>1. \A i \in 1..Len(final) : name[final[i]] = Stand(final, i, k)
    BY DEF Stands
  <2>2. \E c \in Named : name[c] = todo[k].to
    BY <1>1, <1>2, <2>1
  <2>3. \A c \in Named : name[c] # todo[k].from
    BY <1>1, <1>2, <2>1
  <2> QED
    BY <1>3, <2>2, <2>3 DEF Renamable
<1>6. todo' = todo => \A i \in 1..Len(final), d \in {k - 1, k} : Stand(final, i, d)' = Stand(final, i, d)
  BY DEF Stand
<1>7. ASSUME Stands(final, k - 1), Rename(todo[k]), todo' = todo PROVE Stands(final, k)'
  <2>1. \A c \in Cards : name'[c] = IF name[c] = todo[k].from THEN todo[k].to ELSE name[c]
    BY <1>7 DEF Rename
  <2>2. \A i \in 1..Len(final) : name'[final[i]] = Stand(final, i, k)
    BY <1>1, <1>2, <1>7, <2>1 DEF Stands
  <2> QED
    BY <1>6, <1>7, <2>2 DEF Stands
<1>8. ASSUME Stands(final, k), Rename(back), todo' = todo PROVE Stands(final, k - 1)'
  <2>1. \A c \in Cards : name'[c] = IF name[c] = todo[k].to THEN todo[k].from ELSE name[c]
    BY <1>3, <1>8 DEF Rename
  <2>2. \A i \in 1..Len(final) : name'[final[i]] = Stand(final, i, k - 1)
    BY <1>1, <1>2, <1>8, <2>1 DEF Stands
  <2> QED
    BY <1>6, <1>8, <2>2 DEF Stands
<1> QED
  BY <1>4, <1>5, <1>7, <1>8

\* At both ends the interfaces are eth0 to ethN-1, and at the far end in the
\* order of the plan.
EndsFact ==
  \A final \in Seq(Cards) : Towards(final) =>
    /\ Stands(final, 0) => Whole
    /\ Stands(final, Len(todo)) => Whole /\ Planned

LEMMA Ends == EndsFact
<1> SUFFICES ASSUME NEW final \in Seq(Cards), Towards(final)
             PROVE  /\ Stands(final, 0) => Whole
                    /\ Stands(final, Len(todo)) => Whole /\ Planned
  BY DEF EndsFact
<1>1. /\ Len(final) \in Nat /\ Len(todo) = Len(final) + Len(final) /\ Cardinality(Named) = Len(final)
      /\ \A i \in 1..Len(final) : final[i] \in Named
      /\ \A c \in Named : \E i \in 1..Len(final) : final[i] = c
      /\ \A i \in 1..Len(Within(order, Named)) : i <= Len(final) /\ final[i] = Within(order, Named)[i]
  BY DEF Towards
<1>2. {name[c] : c \in Named} = {name[final[i]] : i \in 1..Len(final)}
  BY <1>1
<1>3. ASSUME Stands(final, 0) PROVE Whole
  <2>1. \A i \in 1..Len(final) : name[final[i]] = todo[i].from
    <3> TAKE i \in 1..Len(final)
    <3>1. 0 < i
      BY <1>1
    <3> QED
      BY <1>3, <3>1 DEF Stands, Stand
  <2>2. {name[final[i]] : i \in 1..Len(final)} = {todo[i].from : i \in 1..Len(final)}
    BY <2>1
  <2> QED
    BY <1>2, <2>2 DEF Whole, Towards
<1>4. ASSUME Stands(final, Len(todo)) PROVE Whole /\ Planned
  <2>1. \A i \in 1..Len(final) : name[final[i]] = <<"eth", i - 1>>
    <3> TAKE i \in 1..Len(final)
    <3>1. ~(Len(todo) < i) /\ ~(Len(todo) < Len(final) + i)
      BY <1>1
    <3> QED
      BY <1>4, <3>1 DEF Stands, Stand
  <2>2. Whole
    <3>1. {name[final[i]] : i \in 1..Len(final)} = {<<"eth", i - 1>> : i \in 1..Len(final)}
      BY <2>1
    <3> QED
      BY <1>1, <1>2, <3>1 DEF Whole
  <2>3. Planned
    <3> SUFFICES ASSUME NEW i \in 1..Len(Within(order, Named))
                 PROVE  name[Within(order, Named)[i]] = <<"eth", i - 1>>
      BY DEF Planned
    <3>1. i \in 1..Len(final) /\ final[i] = Within(order, Named)[i]
      BY <1>1
    <3> QED
      BY <2>1, <3>1
  <2> QED
    BY <2>2, <2>3
<1> QED
  BY <1>3, <1>4

\* The renames are planned while the interfaces are eth0 to ethN-1.
LEMMA WholeNumbered == ASSUME Names, Whole PROVE Numbered = Named
<1>1. \A c \in Named : name[c] \in {<<"eth", n - 1>> : n \in 1..Cardinality(Named)}
  BY DEF Whole
<1>2. \A c \in Named : name[c][1] = "eth"
  BY <1>1
<1> QED
  BY <1>2 DEF Numbered

LEMMA CountOf ==
  ASSUME NEW S, NEW n \in Nat, NEW f \in [1..n -> S], \A i, j \in 1..n : f[i] = f[j] => i = j,
         \A c \in S : \E i \in 1..n : f[i] = c
  PROVE  Cardinality(S) = n
<1>1. f \in Bijection(1..n, S)
  BY DEF Bijection, Injection, Surjection, IsInjective
<1>2. ExistsBijection(1..n, S)
  BY <1>1 DEF ExistsBijection
<1> QED
  BY <1>2, FS_CountingElements

LEMMA PlanMoves ==
  ASSUME Base, Whole, ApplyNICPlan
  PROVE  /\ phase' = "rename" => \E final \in Seq(Cards) : Towards(final)' /\ Stands(final, 0)'
         /\ phase' = "macs" => Whole' /\ (went' = {} => Planned')
<1>1. /\ order' = order /\ name' = name /\ Named' = Named /\ Whole' /\ phase = "drivers"
  <2>1. order' = order /\ name' = name /\ phase = "drivers"
    BY DEF ApplyNICPlan, pageVars, settings
  <2>2. Named' = Named
    BY <2>1, SameNames
  <2> QED
    BY <2>1, <2>2 DEF Whole
<1>2. Names /\ order \in Seq(Cards) /\ Once(order) /\ order \in Seq(Keyed)
  BY <1>1, BuiltMacs DEF Base, Wizard
<1>3. Numbered = Named
  BY <1>2, WholeNumbered
<1>0. PICK final \in Seq(Cards) : final = Final(order)
  BY <1>2, FinalSound
<1> DEFINE n == Len(final)
<1>4. /\ final \in Seq(Cards) /\ Once(final) /\ n \in Nat
      /\ \A i \in 1..n : final[i] \in Named
      /\ \A c \in Named : \E i \in 1..n : final[i] = c
      /\ \A i \in 1..Len(Within(order, Named)) : i <= n /\ final[i] = Within(order, Named)[i]
  BY <1>0, <1>2, <1>3, FinalSound
<1>5. /\ NICRenames(order) = <<>> => \A i \in 1..n : name[final[i]] = <<"eth", i - 1>>
      /\ NICRenames(order) # <<>> =>
           /\ n >= 1 /\ Len(NICRenames(order)) = n + n
           /\ \A i \in 1..n :
                /\ NICRenames(order)[i] = [from |-> name[final[i]], to |-> <<"vibeldr", i - 1>>]
                /\ NICRenames(order)[n + i] = [from |-> <<"vibeldr", i - 1>>, to |-> <<"eth", i - 1>>]
  BY <1>0, <1>2, RenamesSound
<1>6. Cardinality(Named) = n
  <2>1. final \in [1..n -> Named] /\ \A i, j \in 1..n : final[i] = final[j] => i = j
    BY <1>4 DEF Once
  <2> HIDE DEF n
  <2> QED
    BY <1>4, <2>1, CountOf
<1>7. ASSUME phase' = "rename" PROVE Towards(final)' /\ Stands(final, 0)'
  <2>1. todo' = NICRenames(order) /\ todo' # <<>>
    BY <1>7 DEF ApplyNICPlan
  <2>2. /\ n >= 1 /\ Len(todo') = n + n
        /\ \A i \in 1..n :
             /\ todo'[i].from = name[final[i]] /\ todo'[i].to = <<"vibeldr", i - 1>>
             /\ todo'[n + i].from = <<"vibeldr", i - 1>> /\ todo'[n + i].to = <<"eth", i - 1>>
    <3>1. /\ n >= 1 /\ Len(todo') = n + n
          /\ \A i \in 1..n :
               /\ todo'[i] = [from |-> name[final[i]], to |-> <<"vibeldr", i - 1>>]
               /\ todo'[n + i] = [from |-> <<"vibeldr", i - 1>>, to |-> <<"eth", i - 1>>]
      BY <1>5, <2>1
    <3> HIDE DEF n
    <3>2. ASSUME NEW i \in 1..n
          PROVE  /\ todo'[i].from = name[final[i]] /\ todo'[i].to = <<"vibeldr", i - 1>>
                 /\ todo'[n + i].from = <<"vibeldr", i - 1>> /\ todo'[n + i].to = <<"eth", i - 1>>
      <4>1. todo'[i] = [from |-> name[final[i]], to |-> <<"vibeldr", i - 1>>]
        BY <3>1
      <4>2. todo'[n + i] = [from |-> <<"vibeldr", i - 1>>, to |-> <<"eth", i - 1>>]
        BY <3>1
      <4> QED
        BY <4>1, <4>2
    <3> QED
      BY <3>1, <3>2
  <2>3. \A i \in 1..n : name[final[i]][1] = "eth"
    BY <1>3, <1>4 DEF Numbered
  <2>4. \A i, j \in 1..n : todo'[i].from = todo'[j].from => i = j
    <3> SUFFICES ASSUME NEW i \in 1..n, NEW j \in 1..n, todo'[i].from = todo'[j].from PROVE i = j
      OBVIOUS
    <3>1. final[i] \in Named /\ final[j] \in Named /\ name[final[i]] = name[final[j]]
      BY <1>4, <2>2
    <3>2. final[i] = final[j]
      BY <1>2, <3>1 DEF Names
    <3> QED
      BY <1>4, <3>2 DEF Once
  <2>5. {todo'[i].from : i \in 1..n} = {<<"eth", k - 1>> : k \in 1..Cardinality(Named)}
    <3>1. {todo'[i].from : i \in 1..n} = {name[final[i]] : i \in 1..n}
      BY <2>2, SMTT(30)
    <3>2. {name[final[i]] : i \in 1..n} = {name[c] : c \in Named}
      BY <1>4
    <3> QED
      BY <3>1, <3>2 DEF Whole
  <2>6. Towards(final)'
    <3>1. Within(order, Named)' = Within(order, Named) /\ Cardinality(Named)' = Cardinality(Named)
      BY <1>1
    <3>2. \A i \in 1..n : todo'[i].from[1] = "eth"
      BY <2>2, <2>3
    <3>3. /\ \A i \in 1..n : final[i] \in Named'
          /\ \A c \in Named' : \E i \in 1..n : final[i] = c
          /\ \A i \in 1..Len(Within(order, Named)') : i <= n /\ final[i] = Within(order, Named)'[i]
      BY <1>1, <1>4, <3>1
    <3>4. {todo'[i].from : i \in 1..n} = {<<"eth", k - 1>> : k \in 1..Cardinality(Named)'} /\ Cardinality(Named)' = n
      BY <1>6, <2>5, <3>1
    <3>5. \A i \in 1..n : /\ todo'[i].from[1] = "eth" /\ todo'[i].to = <<"vibeldr", i - 1>>
                          /\ todo'[n + i].from = <<"vibeldr", i - 1>> /\ todo'[n + i].to = <<"eth", i - 1>>
      BY <2>2, <3>2
    <3> QED
      BY <1>4, <2>2, <2>4, <3>3, <3>4, <3>5 DEF Towards
  <2>7. Stands(final, 0)'
    <3> SUFFICES ASSUME NEW i \in 1..n PROVE name'[final[i]] = Stand(final, i, 0)'
      BY DEF Stands
    <3>1. 0 < i /\ todo'[i].from = name[final[i]]
      BY <1>4, <2>2
    <3> QED
      BY <1>1, <3>1 DEF Stand
  <2> QED
    BY <2>6, <2>7
<1>8. ASSUME phase' = "macs", went' = {} PROVE Planned'
  <2>1. order = <<>> \/ NICRenames(order) = <<>>
    BY <1>8 DEF ApplyNICPlan
  <2>2. CASE order = <<>>
    <3>1. Len(Within(order, Named)) = 0
      <4>1. \A k \in 1..Len(Within(order, Named)) : \E i \in 1..Len(order) : Within(order, Named)[k] = order[i]
        BY <1>2, WithinSet
      <4>2. Len(order) = 0 /\ Len(Within(order, Named)) \in Nat
        BY <1>2, <2>2, WithinPlaces
      <4> SUFFICES ASSUME Len(Within(order, Named)) # 0 PROVE FALSE
        OBVIOUS
      <4>3. 1 \in 1..Len(Within(order, Named))
        BY <4>2
      <4>4. PICK i \in 1..Len(order) : Within(order, Named)[1] = order[i]
        BY <4>1, <4>3
      <4> QED
        BY <4>2, <4>4
    <3> QED
      BY <1>1, <3>1 DEF Planned
  <2>3. CASE NICRenames(order) = <<>>
    <3>1. \A i \in 1..Len(Within(order, Named)) : i \in 1..n
      BY <1>4
    <3> QED
      BY <1>1, <1>4, <1>5, <2>3, <3>1 DEF Planned
  <2> QED
    BY <2>1, <2>2, <2>3
<1> QED
  BY <1>1, <1>4, <1>7, <1>8

Placed ==
  /\ phase = "drivers" => Whole
  /\ Moving
  /\ (phase = "macs" /\ went \cap {"late", "stuck"} = {}) => Whole
  /\ (phase = "macs" /\ went = {}) => Planned

\* Interfaces are registered as eth0, eth1, ...
LEMMA RegisterWhole == ASSUME Base, Whole, Register PROVE Whole'
<1> DEFINE N == Cardinality(Named)
           Eths(n) == {<<"eth", k - 1>> : k \in 1..n}
<1>1. Names /\ here \subseteq Cards /\ Named \subseteq Cards
  BY SpanNames DEF Base, PageInv, PageTypeOK
<1>2. PICK c \in Cards \ Named : Appear(c)
  BY <1>1 DEF Register
<1>3. /\ Named' = Named \cup {c} /\ name'[c] = <<"eth", Free>> /\ \A d \in Cards \ {c} : name'[d] = name[d]
  BY <1>1, <1>2, NewName
<1>4. /\ Free \in Nat /\ \A d \in Cards : name[d] # <<"eth", Free>>
      /\ \A k \in 0..Free - 1 : \E d \in Cards : name[d] = <<"eth", k>>
  <2>1. Cardinality(Cards) \in Nat
    BY CardsFinite
  <2> QED
    BY <1>1, <2>1, FreeSound, SMTT(30) DEF Names
<1>5. IsFiniteSet(Named) /\ N \in Nat
  BY <1>1, CardsFinite, FS_Subset, FS_CardinalityType
<1>6. Cardinality(Named') = N + 1
  BY <1>2, <1>3, <1>5, FS_AddElement
<1>7. {name[d] : d \in Named} = Eths(N)
  BY DEF Whole
<1> HIDE DEF N
<1>8. Free = N
  <2>1. ~(Free < N)
    <3> SUFFICES ASSUME Free < N PROVE FALSE
      OBVIOUS
    <3>1. Free + 1 \in 1..N /\ <<"eth", Free>> = <<"eth", (Free + 1) - 1>>
      BY <1>4, <1>5
    <3>2. <<"eth", Free>> \in Eths(N)
      BY <3>1
    <3> QED
      BY <1>1, <1>4, <1>7, <3>2
  <2>2. ~(N < Free)
    <3> SUFFICES ASSUME N < Free PROVE FALSE
      OBVIOUS
    <3>1. PICK d \in Cards : name[d] = <<"eth", N>>
      BY <1>4, <1>5
    <3>2. d \in Named
      BY <3>1 DEF Named, NoName
    <3>3. PICK k \in 1..N : <<"eth", N>> = <<"eth", k - 1>>
      BY <1>7, <3>1, <3>2
    <3> QED
      BY <1>5, <3>3
  <2> QED
    BY <1>4, <1>5, <2>1, <2>2
<1>9. {name'[d] : d \in Named'} = {name[d] : d \in Named} \cup {<<"eth", N>>}
  BY <1>1, <1>2, <1>3, <1>8
<1>10. Eths(N + 1) = Eths(N) \cup {<<"eth", N>>}
  <2>1. 1..(N + 1) = (1..N) \cup {N + 1} /\ (N + 1) - 1 = N
    BY <1>5
  <2> QED
    BY <2>1
<1> QED
  BY <1>6, <1>7, <1>9, <1>10 DEF Whole

\* What the rename and its way back leave.
LEMMA RenamePlaced == ASSUME Base, Placed, RenameNext \/ Undo PROVE Placed'
<1>1. /\ todo' = todo /\ order' = order /\ Named' = Named /\ phase \in {"rename", "undo"} /\ Names
      /\ phase' # "drivers" /\ phase' \in {"rename", "undo", "macs"}
  BY RenameBase DEF RenameNext, Undo, pageVars, settings, Base
<1>2. /\ at \in 1..Len(todo) /\ Len(todo) \in Nat /\ todo \in Seq(Renames)
  BY <1>1, StepTyped DEF Base, BootTypes
<1>3. went \subseteq went'
  BY DEF RenameNext, Undo
<1>0. PICK k \in 1..Len(todo) : k = at
  BY <1>2
<1> DEFINE back == [from |-> todo[k].to, to |-> todo[k].from]
<1> DEFINE calm == went' \cap {"late", "stuck"} = {}
<1>4. CASE ~calm
  <2>1. went' # {}
    BY <1>4
  <2> QED
    BY <1>1, <1>4, <2>1 DEF Placed, Moving
<1>5. CASE calm
  <2>1. went \cap {"late", "stuck"} = {}
    BY <1>3, <1>5
  <2>2. PICK final \in Seq(Cards) : Towards(final) /\ Stands(final, Done)
    BY <1>1, <2>1 DEF Placed, Moving
  <2>3. Towards(final)'
    <3>1. Within(order, Named)' = Within(order, Named) /\ Cardinality(Named)' = Cardinality(Named)
      BY <1>1
    <3>2. /\ final \in Seq(Cards) /\ Once(final) /\ Len(final) >= 1
          /\ \A i \in 1..Len(final) : final[i] \in Named
          /\ \A c \in Named : \E i \in 1..Len(final) : final[i] = c
          /\ \A i \in 1..Len(Within(order, Named)) : i <= Len(final) /\ final[i] = Within(order, Named)[i]
          /\ Len(todo) = Len(final) + Len(final)
          /\ \A i, j \in 1..Len(final) : todo[i].from = todo[j].from => i = j
          /\ Cardinality(Named) = Len(final)
      BY <2>2 DEF Towards
    <3>3. \A i \in 1..Len(final) :
            /\ todo[i].from[1] = "eth" /\ todo[i].to = <<"vibeldr", i - 1>>
            /\ todo[Len(final) + i].from = <<"vibeldr", i - 1>>
            /\ todo[Len(final) + i].to = <<"eth", i - 1>>
      BY <2>2 DEF Towards
    <3>4. {todo[i].from : i \in 1..Len(final)} = {<<"eth", n - 1>> : n \in 1..Cardinality(Named)}
      BY <2>2 DEF Towards
    <3>5. {todo'[i].from : i \in 1..Len(final)} = {<<"eth", n - 1>> : n \in 1..Cardinality(Named)'}
      BY <1>1, <3>1, <3>4
    <3>6. /\ \A i \in 1..Len(final) : final[i] \in Named'
          /\ \A c \in Named' : \E i \in 1..Len(final) : final[i] = c
          /\ \A i \in 1..Len(Within(order, Named)') : i <= Len(final) /\ final[i] = Within(order, Named)'[i]
          /\ Len(todo') = Len(final) + Len(final)
          /\ \A i, j \in 1..Len(final) : todo'[i].from = todo'[j].from => i = j
          /\ Cardinality(Named)' = Len(final)
      BY <1>1, <3>1, <3>2
    <3>7. \A i \in 1..Len(final) :
            /\ todo'[i].from[1] = "eth" /\ todo'[i].to = <<"vibeldr", i - 1>>
            /\ todo'[Len(final) + i].from = <<"vibeldr", i - 1>>
            /\ todo'[Len(final) + i].to = <<"eth", i - 1>>
      BY <1>1, <3>3
    <3> QED
      BY <3>2, <3>5, <3>6, <3>7 DEF Towards
  <2>4. name' = name => \A d \in Nat : Stands(final, d) => Stands(final, d)'
    BY <1>1 DEF Stands, Stand
  <2>5. k - 1 \in Nat /\ k \in Nat
    BY <1>2
  <2>6. /\ Stands(final, k - 1) => Renamable(todo[k])
        /\ Stands(final, k) => Renamable(back)
        /\ Stands(final, k - 1) /\ Rename(todo[k]) /\ todo' = todo => Stands(final, k)'
        /\ Stands(final, k) /\ Rename(back) /\ todo' = todo => Stands(final, k - 1)'
    BY <1>0, <1>1, <1>2, <2>2, Moved
  <2>7. EndsFact'
    BY Ends, PTL
  <2>8. /\ (\A i \in 1..Len(final) : name'[final[i]] = Stand(final, i, 0)') => Whole'
        /\ (\A i \in 1..Len(final) : name'[final[i]] = Stand(final, i, Len(todo))') => Whole' /\ Planned'
    BY <2>3, <2>7 DEF EndsFact, Stands
  <2>9. /\ Stands(final, 0)' => Whole'
        /\ Stands(final, Len(todo))' => Whole' /\ Planned'
    BY <2>8 DEF Stands
  <2>10. ASSUME Stands(final, k - 1)', at' = k - 1, phase' = (IF k = 1 THEN "macs" ELSE "undo"),
                "refused" \in went'
         PROVE  Placed'
    <3>1. CASE k = 1
      <4>1. Stands(final, 0)'
        <5>1. k - 1 = 0
          BY <3>1
        <5>2. \A i \in 1..Len(final) : name'[final[i]] = Stand(final, i, k - 1)'
          BY <2>10 DEF Stands
        <5>3. \A i \in 1..Len(final) : Stand(final, i, k - 1)' = Stand(final, i, 0)'
          BY <5>1 DEF Stand
        <5> QED
          BY <5>2, <5>3 DEF Stands
      <4> QED
        BY <2>9, <2>10, <3>1, <4>1 DEF Placed, Moving
    <3>2. CASE k # 1
      <4>1. phase' = "undo" /\ Done' = at'
        BY <2>10, <3>2 DEF Done
      <4>2. Stands(final, Done)'
        BY <2>10, <4>1 DEF Stands, Stand
      <4> QED
        BY <2>3, <2>10, <4>1, <4>2 DEF Placed, Moving
    <3> QED
      BY <3>1, <3>2
  <2>11. ASSUME phase = "rename", Rename(todo[k]),
                IF k = Len(todo) THEN phase' = "macs" /\ at' = 0 ELSE phase' = phase /\ at' = k + 1
         PROVE  Placed'
    <3>1. Stands(final, k)'
      BY <1>0, <1>1, <2>2, <2>6, <2>11 DEF Done
    <3>2. CASE k = Len(todo)
      <4>1. Stands(final, Len(todo))'
        BY <1>1, <3>1, <3>2 DEF Stands, Stand
      <4> QED
        BY <2>9, <2>11, <3>2, <4>1 DEF Placed, Moving
    <3>3. CASE k # Len(todo)
      <4>1. phase' = "rename" /\ Done' = k
        BY <1>2, <2>11, <3>3 DEF Done
      <4>2. Stands(final, Done)'
        BY <3>1, <4>1 DEF Stands, Stand
      <4> QED
        BY <2>3, <4>1, <4>2 DEF Placed, Moving
    <3> QED
      BY <3>2, <3>3
  <2>12. ASSUME phase = "rename", name' = name, at' = k - 1, phase' = (IF k = 1 THEN "macs" ELSE "undo"),
                went' = IF Renamable(todo[k]) THEN went \cup {"refused"} ELSE went
         PROVE  Placed'
    <3>1. Stands(final, k - 1)
      BY <1>0, <2>2, <2>12 DEF Done
    <3>2. Stands(final, k - 1)' /\ "refused" \in went'
      BY <2>4, <2>5, <2>6, <2>12, <3>1
    <3> QED
      BY <2>10, <2>12, <3>2
  <2>13. ASSUME phase = "undo", at' = k - 1, phase' = (IF k = 1 THEN "macs" ELSE "undo"),
                \/ Rename(back) /\ UNCHANGED went
                \/ name' = name /\ (IF Renamable(back) THEN went' = went \cup {"stuck"} ELSE UNCHANGED went)
         PROVE  Placed'
    <3>1. Stands(final, k) /\ "refused" \in went
      BY <1>0, <2>1, <2>2, <2>13 DEF Done, Placed, Moving
    <3>2. Renamable(back)
      BY <2>6, <3>1
    <3>3. Rename(back)
      BY <1>5, <2>13, <3>2
    <3>4. Stands(final, k - 1)' /\ "refused" \in went'
      BY <1>1, <1>3, <2>6, <3>1, <3>3
    <3> QED
      BY <2>10, <2>13, <3>4
  <2>14. CASE RenameNext
    BY <1>0, <2>11, <2>12, <2>14 DEF RenameNext
  <2>15. CASE Undo
    BY <1>0, <2>13, <2>15 DEF Undo
  <2> QED
    BY <2>14, <2>15
<1> QED
  BY <1>4, <1>5

LEMMA PlacedStep == ASSUME Base, Placed, [Next]_vars PROVE Placed'
<1>1. CASE UNCHANGED vars
  <2>1. phase' = phase /\ order' = order /\ name' = name /\ todo' = todo /\ at' = at /\ went' = went
    BY <1>1 DEF vars, pageVars, settings, bootVars
  <2>2. Named' = Named
    BY <2>1, SameNames
  <2>3. (Whole => Whole') /\ (Planned => Planned')
    BY <2>1, <2>2 DEF Whole, Planned
  <2>4. Moving => Moving'
    <3> SUFFICES ASSUME Moving, phase \in {"rename", "undo"}, went \cap {"late", "stuck"} = {}
                 PROVE  /\ \E final \in Seq(Cards) : (Towards(final) /\ Stands(final, Done))'
                        /\ phase = "undo" => "refused" \in went
      BY <2>1 DEF Moving
    <3>1. PICK final \in Seq(Cards) : Towards(final) /\ Stands(final, Done)
      BY DEF Moving
    <3>2. Towards(final)'
      BY <2>1, <2>2, <3>1 DEF Towards
    <3>3. Stands(final, Done)'
      BY <2>1, <3>1 DEF Stands, Stand, Done
    <3> QED
      BY <3>2, <3>3 DEF Moving
  <2> QED
    BY <2>1, <2>3, <2>4 DEF Placed
<1>2. CASE phase' \notin {"drivers", "rename", "undo", "macs"}
  BY <1>2 DEF Placed, Moving
<1>3. CASE PowerOn
  <2>1. phase' = "drivers" /\ Cold
    BY <1>3 DEF PowerOn
  <2>2. Named' = {}
    BY <2>1 DEF Cold, Named
  <2>3. Cardinality(Named') = 0
    BY <2>2, FS_EmptySet
  <2>4. Whole'
    BY <2>2, <2>3 DEF Whole
  <2> QED
    BY <2>1, <2>4 DEF Placed, Moving
<1>4. CASE Register /\ phase = "drivers"
  <2>1. phase' = "drivers" /\ Whole
    BY <1>4 DEF Register, Placed
  <2>2. Whole'
    BY <1>4, <2>1, RegisterWhole
  <2> QED
    BY <2>1, <2>2 DEF Placed, Moving
<1>5. CASE Register /\ phase \in {"rename", "undo", "macs"}
  <2>1. "late" \in went' /\ phase' = phase
    BY <1>5 DEF Register
  <2> QED
    BY <1>5, <2>1 DEF Placed, Moving
<1>6. CASE ApplyNICPlan
  <2>1. phase = "drivers" /\ phase' \in {"rename", "macs"} /\ at' = 1 /\ Whole
    BY <1>6 DEF ApplyNICPlan, Placed
  <2>2. /\ phase' = "rename" => \E final \in Seq(Cards) : Towards(final)' /\ Stands(final, 0)'
        /\ phase' = "macs" => Whole' /\ (went' = {} => Planned')
    BY <1>6, <2>1, PlanMoves
  <2>3. ASSUME phase' = "rename" PROVE Moving'
    <3>1. PICK final \in Seq(Cards) : Towards(final)' /\ Stands(final, 0)'
      BY <2>2, <2>3
    <3>2. Done' = 0
      BY <2>1, <2>3 DEF Done
    <3>3. Stands(final, Done)'
      <4>1. \A i \in 1..Len(final) : name'[final[i]] = Stand(final, i, 0)'
        BY <3>1 DEF Stands
      <4>2. \A i \in 1..Len(final) : Stand(final, i, Done)' = Stand(final, i, 0)'
        BY <3>2 DEF Stand
      <4> QED
        BY <4>1, <4>2 DEF Stands
    <3> QED
      BY <2>3, <3>1, <3>3 DEF Moving
  <2> QED
    BY <2>1, <2>2, <2>3 DEF Placed, Moving
<1>7. CASE RenameNext \/ Undo
  BY <1>7, RenamePlaced
<1>8. \/ UNCHANGED vars \/ phase' \notin {"drivers", "rename", "undo", "macs"} \/ PowerOn
      \/ (Register /\ phase = "drivers") \/ (Register /\ phase \in {"rename", "undo", "macs"})
      \/ ApplyNICPlan \/ RenameNext \/ Undo
  <2>1. PageNext => phase' \notin {"drivers", "rename", "undo", "macs"}
    BY PagePhases DEF Booting
  <2>2. Pivot \/ DsmNames \/ Reload \/ RunAgent \/ PowerOff => phase' \notin {"drivers", "rename", "undo", "macs"}
    BY DEF Pivot, DsmNames, Reload, RunAgent, PowerOff
  <2>3. Register => phase \in {"drivers", "rename", "undo", "macs"} \/ phase' \notin {"drivers", "rename", "undo", "macs"}
    BY DEF Register
  <2> QED
    BY <2>1, <2>2, <2>3 DEF Next
<1> QED
  BY <1>1, <1>2, <1>3, <1>4, <1>5, <1>6, <1>7, <1>8

LEMMA BaseTyped == ASSUME Base PROVE TypeOK
<1>1. PageTypeOK
  BY DEF Base, PageInv
<1>2. \A c \in Cards : name[c] \in {NoName} \cup ({"eth", "vibeldr"} \X (0..Cardinality(Cards)))
  BY DEF Base, Names, Spans
<1>3. Named \subseteq Cards
  BY DEF Named
<1> QED
  BY <1>1, <1>2, <1>3 DEF TypeOK, Base, BootTypes

\* A boot leaves the interfaces eth0 to ethN-1, whatever failed among the
\* renames, and the plan's cards in the plan's order.
THEOREM NamesAsPlannedCorrect == Spec => []NamesAsPlanned
<1>1. Init => Base /\ Placed
  <2>1. Init => Placed
    BY DEF Init, PageInit, Placed, Moving
  <2> QED
    BY <2>1, BaseStarts
<1>2. Base /\ Placed /\ [Next]_vars => (Base /\ Placed)'
  BY BaseStep, PlacedStep
<1>3. Base /\ Placed => NamesAsPlanned
  <2>1. Base => TypeOK
    BY BaseTyped
  <2>2. Placed => NamesAreWhole /\ PlannedOrder
    BY DEF Placed, NamesAreWhole, PlannedOrder, Whole, Planned
  <2> QED
    BY <2>1, <2>2 DEF NamesAsPlanned
<1> QED
  BY <1>1, <1>2, <1>3, PTL DEF Spec
=============================================================================
