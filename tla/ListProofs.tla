----------------------------- MODULE ListProofs -----------------------------
(***************************************************************************)
(* Lemmas the other proofs cite: induction over the naturals, stated with  *)
(* sets in the place of predicates (the library's rules take an operator;  *)
(* the one fact of it that does not, the strict inclusion of finite sets   *)
(* being well-founded, is enough), and what sorting and filtering give.    *)
(***************************************************************************)
EXTENDS Lists, Integers, FiniteSetTheorems, WellFoundedInduction, TLAPS

\* A set of naturals that is not empty has a least element.
LEMMA LeastElement ==
  ASSUME NEW T, T \subseteq Nat, T # {}
  PROVE  \E x \in T : \A y \in T : x <= y
<1> DEFINE R == StrictSubsetOrdering(Nat)
           F == FiniteSubsetsOf(Nat)
           U == {0 .. n : n \in T}
<1>1. IsWellFoundedOn(R, F)
  BY FS_StrictSubsetOrderingWellFounded
<1>2. U \subseteq F /\ U # {}
  <2>1. \A n \in T : 0 .. n \in SUBSET Nat /\ IsFiniteSet(0 .. n)
    BY FS_Interval
  <2> QED
    BY <2>1 DEF FiniteSubsetsOf
<1>3. PICK u \in U : \A v \in U : ~(<<v, u>> \in R)
  <2> HIDE DEF R, F, U
  <2> QED
    BY <1>1, <1>2, WFMin
<1>4. PICK x \in T : u = 0 .. x
  OBVIOUS
<1>5. ASSUME NEW y \in T, y < x PROVE FALSE
  <2> DEFINE a == 0 .. y
             b == 0 .. x
  <2>1. a \in U
    OBVIOUS
  <2>2. a \in SUBSET Nat /\ b \in SUBSET Nat /\ a \subseteq b
    BY <1>5
  <2>3. x \in b /\ x \notin a
    BY <1>5
  <2> HIDE DEF a, b
  <2>4. <<a, b>> \in R
    BY <2>2, <2>3 DEF StrictSubsetOrdering
  <2> QED
    BY <2>1, <2>4, <1>3, <1>4 DEF b
<1>6. \A y \in T : ~(y < x)
  BY <1>5
<1> QED
  BY <1>6

\* Induction: a set with 0 in it and, with every natural, the next one.
LEMMA Induction ==
  ASSUME NEW S, 0 \in S, \A n \in Nat : n \in S => n + 1 \in S
  PROVE  Nat \subseteq S
<1> SUFFICES ASSUME Nat \ S # {} PROVE FALSE
  OBVIOUS
<1>1. PICK x \in Nat \ S : \A y \in Nat \ S : x <= y
  BY LeastElement
<1>2. x - 1 \in Nat /\ x - 1 \in S
  BY <1>1
<1> QED
  BY <1>1, <1>2

\* R orders S: no element before itself, of two one before the other.
Orders(R, S) ==
  /\ \A x \in S : <<x, x>> \notin R
  /\ \A x, y \in S : x # y => <<x, y>> \in R \/ <<y, x>> \in R
  /\ \A x, y, z \in S : <<x, y>> \in R /\ <<y, z>> \in R => <<x, z>> \in R

\* A sorted set has each of its elements once, in their order.
LEMMA SortedList ==
  ASSUME NEW S, IsFiniteSet(S), NEW R, Orders(R, S)
  PROVE  LET s == Listed(S, R)
         IN  /\ Cardinality(S) \in Nat /\ s \in [1..Cardinality(S) -> S]
             /\ \A x \in S : \E k \in 1..Cardinality(S) : s[k] = x
             /\ \A j, k \in 1..Cardinality(S) : j < k <=> <<s[j], s[k]>> \in R
             /\ \A j, k \in 1..Cardinality(S) : s[j] = s[k] => j = k
<1> DEFINE n == Cardinality(S)
           Below(x) == {y \in S : <<y, x>> \in R}
           rank == [x \in S |-> Cardinality(Below(x)) + 1]
<1>1. n \in Nat
  BY FS_CardinalityType
<1>2. \A x \in S : IsFiniteSet(Below(x)) /\ Cardinality(Below(x)) \in Nat
  <2> TAKE x \in S
  <2>1. Below(x) \in SUBSET S
    OBVIOUS
  <2> QED
    BY <2>1, FS_Subset, FS_CardinalityType
<1>3. \A x, y \in S : <<x, y>> \in R => Cardinality(Below(x)) < Cardinality(Below(y))
  <2> TAKE x, y \in S
  <2> HAVE <<x, y>> \in R
  <2>1. Below(x) \in SUBSET Below(y) /\ x \in Below(y) /\ x \notin Below(x)
    BY DEF Orders
  <2>2. Below(x) # Below(y)
    BY <2>1
  <2>3. Cardinality(Below(x)) <= Cardinality(Below(y)) /\ Cardinality(Below(x)) # Cardinality(Below(y))
    <3> HIDE DEF Below
    <3> QED
      BY <1>2, <2>1, <2>2, FS_Subset
  <2> QED
    BY <1>2, <2>3
<1>4. \A x \in S : Cardinality(Below(x)) < n
  <2> TAKE x \in S
  <2>1. Below(x) \in SUBSET S /\ Below(x) # S
    BY DEF Orders
  <2>2. Cardinality(Below(x)) <= n /\ Cardinality(Below(x)) # n
    <3> HIDE DEF Below
    <3> QED
      BY <2>1, FS_Subset
  <2> QED
    BY <1>1, <1>2, <2>2
<1>5. rank \in [S -> 1..n]
  <2> HIDE DEF Below
  <2> QED
    BY <1>1, <1>2, <1>4
<1>6. \A x, y \in S : rank[x] = rank[y] => x = y
  <2> TAKE x, y \in S
  <2> HAVE rank[x] = rank[y]
  <2>1. Cardinality(Below(x)) = Cardinality(Below(y))
    <3> HIDE DEF Below
    <3> QED
      BY <1>2
  <2> SUFFICES ASSUME x # y PROVE FALSE
    OBVIOUS
  <2>2. <<x, y>> \in R \/ <<y, x>> \in R
    BY DEF Orders
  <2> HIDE DEF Below
  <2> QED
    BY <1>2, <1>3, <2>1, <2>2
<1>7. rank \in Injection(S, 1..n)
  <2> HIDE DEF rank
  <2> QED
    BY <1>5, <1>6 DEF Injection, IsInjective
<1>8. IsFiniteSet(1..n) /\ Cardinality(1..n) = n
  BY <1>1, FS_Interval
<1>9. \A k \in 1..n : \E x \in S : rank[x] = k
  <2>1. rank \in Surjection(S, 1..n)
    <3> HIDE DEF rank
    <3> QED
      BY <1>7, <1>8, FS_Injection
  <2> HIDE DEF rank
  <2> QED
    BY <2>1 DEF Surjection
<1> DEFINE s == Listed(S, R)
<1>10. \A k \in 1..n : s[k] \in S /\ rank[s[k]] = k
  <2> TAKE k \in 1..n
  <2>1. s[k] = CHOOSE x \in S : Cardinality(Below(x)) = k - 1
    BY DEF Listed
  <2>2. \E x \in S : Cardinality(Below(x)) = k - 1
    <3>1. PICK x \in S : rank[x] = k
      BY <1>9
    <3>2. Cardinality(Below(x)) + 1 = k
      BY <3>1
    <3> HIDE DEF Below
    <3>3. Cardinality(Below(x)) = k - 1
      BY <3>2, <1>1, <1>2
    <3> QED
      BY <3>3
  <2>3. s[k] \in S /\ Cardinality(Below(s[k])) = k - 1
    <3> HIDE DEF Below, s
    <3> QED
      BY <2>1, <2>2
  <2>4. rank[s[k]] = Cardinality(Below(s[k])) + 1
    BY <2>3
  <2> HIDE DEF Below, s, rank
  <2> QED
    BY <1>1, <2>3, <2>4
<1>11. s \in [1..n -> S]
  <2> DEFINE chosen(k) == CHOOSE x \in S : Cardinality(Below(x)) = k - 1
  <2>1. s = [k \in 1..n |-> chosen(k)]
    BY DEF Listed
  <2> HIDE DEF s, chosen
  <2> QED
    BY <1>10, <2>1
<1>12. \A x, y \in S : <<x, y>> \in R => rank[x] < rank[y]
  <2> HIDE DEF Below
  <2> QED
    BY <1>2, <1>3
<1>13. \A x, y \in S : x = y \/ <<x, y>> \in R \/ <<y, x>> \in R
  BY DEF Orders
<1>14. \A j, k \in 1..n : j < k <=> <<s[j], s[k]>> \in R
  <2> TAKE j, k \in 1..n
  <2> HIDE DEF s, rank
  <2>1. /\ s[j] \in S /\ s[k] \in S /\ rank[s[j]] = j /\ rank[s[k]] = k
    BY <1>10
  <2>2. ASSUME j < k PROVE <<s[j], s[k]>> \in R
    <3>1. s[j] # s[k] /\ ~(rank[s[k]] < rank[s[j]])
      BY <1>1, <2>1, <2>2
    <3> QED
      BY <1>12, <1>13, <2>1, <3>1
  <2>3. ASSUME <<s[j], s[k]>> \in R PROVE j < k
    BY <1>12, <2>1, <2>3
  <2> QED
    BY <2>2, <2>3
<1>15. \A x \in S : \E k \in 1..n : s[k] = x
  <2> TAKE x \in S
  <2> HIDE DEF s, rank
  <2>1. rank[x] \in 1..n
    BY <1>5
  <2>2. s[rank[x]] \in S /\ rank[s[rank[x]]] = rank[x]
    BY <1>10, <2>1
  <2>3. s[rank[x]] = x
    BY <1>6, <2>2
  <2> QED
    BY <2>1, <2>3
<1>16. \A j, k \in 1..n : s[j] = s[k] => j = k
  <2> HIDE DEF s, rank
  <2> QED
    BY <1>10
<1> HIDE DEF s
<1>17. /\ n \in Nat /\ s \in [1..n -> S]
       /\ \A x \in S : \E k \in 1..n : s[k] = x
       /\ \A j, k \in 1..n : j < k <=> <<s[j], s[k]>> \in R
       /\ \A j, k \in 1..n : s[j] = s[k] => j = k
  BY <1>1, <1>11, <1>14, <1>15, <1>16
<1> QED
  BY <1>17 DEF s

\* What is in a list and in T, in the list's order: the places it is taken from.
LEMMA WithinPlaces ==
  ASSUME NEW S, NEW s \in Seq(S), NEW T
  PROVE  /\ Within(s, T) \in Seq(S \cap T)
         /\ \E p \in [1..Len(Within(s, T)) -> 1..Len(s)] :
              /\ \A k \in 1..Len(Within(s, T)) : Within(s, T)[k] = s[p[k]]
              /\ \A i \in 1..Len(s) : s[i] \in T => \E k \in 1..Len(Within(s, T)) : p[k] = i
              /\ \A j, k \in 1..Len(Within(s, T)) : j < k <=> p[j] < p[k]
<1> DEFINE at == {i \in DOMAIN s : s[i] \in T}
           R == {p \in at \X at : p[1] < p[2]}
           p == Listed(at, R)
           n == Cardinality(at)
           w == Within(s, T)
<1>1. at \in SUBSET (1..Len(s)) /\ Len(s) \in Nat
  OBVIOUS
<1>2. IsFiniteSet(at)
  <2>1. IsFiniteSet(1..Len(s))
    BY <1>1, FS_Interval
  <2> HIDE DEF at
  <2> QED
    BY <1>1, <2>1, FS_Subset
<1>3. \A i, j \in at : <<i, j>> \in R <=> i < j
  OBVIOUS
<1>4. Orders(R, at)
  <2> HIDE DEF at, R
  <2> QED
    BY <1>1, <1>3 DEF Orders
<1>5. /\ n \in Nat /\ p \in [1..n -> at]
      /\ \A i \in at : \E k \in 1..n : p[k] = i
      /\ \A j, k \in 1..n : j < k <=> <<p[j], p[k]>> \in R
  <2> HIDE DEF at, R
  <2> QED
    BY <1>2, <1>4, SortedList
<1>6. w = [k \in DOMAIN p |-> s[p[k]]]
  BY DEF Within
<1>7. \A j, k \in 1..n : j < k <=> p[j] < p[k]
  <2> HIDE DEF at, R, p, n
  <2> QED
    BY <1>3, <1>5
<1>8. \A i \in at : s[i] \in S \cap T
  OBVIOUS
<1>9. \A i \in 1..Len(s) : s[i] \in T => i \in at
  OBVIOUS
<1> HIDE DEF at, R, p, n, w
<1>10. w \in [1..n -> S \cap T]
  BY <1>5, <1>6, <1>8
<1>11. w \in Seq(S \cap T) /\ Len(w) = n
  BY <1>5, <1>10
<1>12. p \in [1..Len(w) -> 1..Len(s)]
  BY <1>1, <1>5, <1>11
<1>13. \A k \in 1..Len(w) : w[k] = s[p[k]]
  BY <1>5, <1>6, <1>11
<1>14. \A i \in 1..Len(s) : s[i] \in T => \E k \in 1..Len(w) : p[k] = i
  BY <1>5, <1>9, <1>11
<1>15. \A j, k \in 1..Len(w) : j < k <=> p[j] < p[k]
  BY <1>7, <1>11
<1> QED
  BY <1>11, <1>12, <1>13, <1>14, <1>15 DEF w

\* The same as a set: what the list and T have in common.
LEMMA WithinSet ==
  ASSUME NEW S, NEW s \in Seq(S), NEW T
  PROVE  /\ \A k \in 1..Len(Within(s, T)) : \E i \in 1..Len(s) : Within(s, T)[k] = s[i]
         /\ \A i \in 1..Len(s) : s[i] \in T => \E k \in 1..Len(Within(s, T)) : Within(s, T)[k] = s[i]
<1>1. PICK p \in [1..Len(Within(s, T)) -> 1..Len(s)] :
        /\ \A k \in 1..Len(Within(s, T)) : Within(s, T)[k] = s[p[k]]
        /\ \A i \in 1..Len(s) : s[i] \in T => \E k \in 1..Len(Within(s, T)) : p[k] = i
        /\ \A j, k \in 1..Len(Within(s, T)) : j < k <=> p[j] < p[k]
  BY WithinPlaces
<1>2. Within(s, T) \in Seq(S \cap T)
  BY WithinPlaces
<1> QED
  BY <1>1, <1>2, ZenonT(40)

\* No element comes twice where none did.
LEMMA WithinInjective ==
  ASSUME NEW S, NEW s \in Seq(S), NEW T
  PROVE  (\A i, j \in 1..Len(s) : s[i] = s[j] => i = j) =>
           \A i, j \in 1..Len(Within(s, T)) : Within(s, T)[i] = Within(s, T)[j] => i = j
<1>1. PICK p \in [1..Len(Within(s, T)) -> 1..Len(s)] :
        /\ \A k \in 1..Len(Within(s, T)) : Within(s, T)[k] = s[p[k]]
        /\ \A i \in 1..Len(s) : s[i] \in T => \E k \in 1..Len(Within(s, T)) : p[k] = i
        /\ \A j, k \in 1..Len(Within(s, T)) : j < k <=> p[j] < p[k]
  BY WithinPlaces
<1>2. Len(Within(s, T)) \in Nat
  BY WithinPlaces
<1> HAVE \A i, j \in 1..Len(s) : s[i] = s[j] => i = j
<1>3. ASSUME NEW i \in 1..Len(Within(s, T)), NEW j \in 1..Len(Within(s, T)),
             Within(s, T)[i] = Within(s, T)[j]
      PROVE  i = j
  <2>1. p[i] = p[j]
    BY <1>1, <1>3
  <2>2. ~(i < j) /\ ~(j < i)
    BY <1>1, <2>1
  <2> QED
    BY <1>2, <2>2
<1> QED
  BY <1>3

\* As long as everything is in T, everything stays at its place.
LEMMA WithinPrefix ==
  ASSUME NEW S, NEW s \in Seq(S), NEW T,
         NEW n \in 1..Len(s), \A j \in 1..n : s[j] \in T
  PROVE  n <= Len(Within(s, T)) /\ Within(s, T)[n] = s[n]
<1>1. PICK p \in [1..Len(Within(s, T)) -> 1..Len(s)] :
        /\ \A k \in 1..Len(Within(s, T)) : Within(s, T)[k] = s[p[k]]
        /\ \A i \in 1..Len(s) : s[i] \in T => \E k \in 1..Len(Within(s, T)) : p[k] = i
        /\ \A j, k \in 1..Len(Within(s, T)) : j < k <=> p[j] < p[k]
  BY WithinPlaces
<1>2. Len(Within(s, T)) \in Nat
  BY WithinPlaces
<1> DEFINE K == {k \in Nat : k \in 1..n => k \in 1..Len(Within(s, T)) /\ p[k] = k}
<1>3. 0 \in K
  OBVIOUS
<1>4. ASSUME NEW k \in Nat, k \in K PROVE k + 1 \in K
  <2> SUFFICES ASSUME k + 1 \in 1..n PROVE k + 1 \in 1..Len(Within(s, T)) /\ p[k + 1] = k + 1
    OBVIOUS
  <2>1. PICK m \in 1..Len(Within(s, T)) : p[m] = k + 1
    BY <1>1
  <2>2. k = 0 \/ (k \in 1..Len(Within(s, T)) /\ p[k] = k)
    BY <1>4
  <2>3. k < m
    BY <1>1, <1>2, <2>1, <2>2
  <2>4. k + 1 \in 1..Len(Within(s, T))
    BY <1>2, <2>3
  <2>5. p[k + 1] \in Nat /\ p[k + 1] >= k + 1
    BY <1>1, <2>2, <2>4, SMTT(30)
  <2>6. ~(k + 1 < m)
    BY <1>1, <2>1, <2>4, <2>5
  <2>7. m = k + 1
    BY <1>2, <2>3, <2>6
  <2> QED
    BY <2>1, <2>4, <2>7
<1>5. n \in K
  <2> HIDE DEF K
  <2> QED
    BY <1>3, <1>4, Induction, SMTT(30)
<1> QED
  BY <1>1, <1>5

\* A set of naturals that is not empty and has a bound has a greatest element.
LEMMA GreatestElement ==
  ASSUME NEW T, T \subseteq Nat, T # {}, NEW b \in Nat, \A x \in T : x <= b
  PROVE  \E x \in T : \A y \in T : x >= y
<1> DEFINE U == {u \in Nat : \A x \in T : x <= u}
<1>1. U \subseteq Nat /\ b \in U
  OBVIOUS
<1>2. PICK u \in U : \A v \in U : u <= v
  <2> HIDE DEF U
  <2> QED
    BY <1>1, LeastElement
<1>3. u \in Nat /\ \A x \in T : x <= u
  OBVIOUS
<1>4. u \in T
  <2> SUFFICES ASSUME u \notin T
               PROVE  FALSE
    OBVIOUS
  <2>1. \A x \in T : x < u
    BY <1>3
  <2> PICK x \in T : TRUE
    OBVIOUS
  <2>2. u - 1 \in Nat /\ \A y \in T : y <= u - 1
    <3>1. x \in Nat /\ x < u /\ u \in Nat
      BY <1>3, <2>1
    <3>2. u - 1 \in Nat
      BY <3>1
    <3> QED
      BY <1>3, <2>1, <3>2
  <2>3. u - 1 \in U
    BY <2>2
  <2> QED
    BY <1>2, <1>3, <2>3
<1> QED
  BY <1>3, <1>4

\* Written as a tuple it is the same list.
LEMMA TupleIs ==
  ASSUME NEW S, NEW s \in Seq(S)
  PROVE  Tuple(s) = s
<1>1. Len(s) \in Nat /\ s = [k \in 1..Len(s) |-> s[k]]
  OBVIOUS
<1>2. SubSeq(s, 1, Len(s)) = [k \in 1..Len(s) |-> s[k]]
  BY <1>1
<1> QED
  BY <1>1, <1>2 DEF Tuple

\* The places of a list that have an element of T, and a list of places in
\* their order.
ListPlaces(s, T) == {i \in 1..Len(s) : s[i] \in T}
Counts(p, n, at) ==
  /\ p \in [1..n -> at]
  /\ \A i \in at : \E k \in 1..n : p[k] = i
  /\ \A j, k \in 1..n : j < k <=> p[j] < p[k]

\* There is one such list.
LEMMA OneWay ==
  ASSUME NEW m \in Nat, NEW n \in Nat, NEW at, at \subseteq Nat,
         NEW p, Counts(p, m, at), NEW q, Counts(q, n, at)
  PROVE  m = n /\ p = q
<1> USE DEF Counts
<1> DEFINE Same(k) == (k <= m <=> k <= n) /\ (k <= m => p[k] = q[k])
           K == {n0 \in Nat : \A k \in 1..n0 : Same(k)}
<1>1. 0 \in K
  OBVIOUS
<1>2. ASSUME NEW k0 \in Nat, k0 \in K
      PROVE  k0 + 1 \in K
  <2> DEFINE k == k0 + 1
  <2>1. \A j \in 1..k0 : Same(j)
    BY <1>2
  <2>2. k \in Nat /\ k >= 1 /\ \A j \in Nat : j < k /\ j >= 1 => j \in 1..k0
    OBVIOUS
  <2>3. ASSUME k <= m
        PROVE  k <= n /\ q[k] <= p[k]
    <3>1. k \in 1..m /\ p[k] \in at
      BY <2>2, <2>3
    <3>2. PICK j \in 1..n : q[j] = p[k]
      BY <3>1
    <3>3. j >= k
      <4> SUFFICES ASSUME j < k
                   PROVE  FALSE
        BY <2>2
      <4>1. j \in 1..k0
        BY <2>2
      <4>2. j <= m /\ p[j] = q[j]
        BY <2>1, <4>1
      <4>3. j \in 1..m
        BY <4>2
      <4>4. p[j] < p[k]
        BY <3>1, <4>3
      <4> QED
        BY <3>1, <3>2, <4>2, <4>4
    <3>4. k \in 1..n
      BY <2>2, <3>3
    <3>5. q[k] \in Nat /\ q[j] \in Nat
      BY <3>4
    <3>6. ~(q[j] < q[k])
      BY <3>3, <3>4
    <3> QED
      BY <3>2, <3>4, <3>5, <3>6
  <2>4. ASSUME k <= n
        PROVE  k <= m /\ p[k] <= q[k]
    <3>1. k \in 1..n /\ q[k] \in at
      BY <2>2, <2>4
    <3>2. PICK j \in 1..m : p[j] = q[k]
      BY <3>1
    <3>3. j >= k
      <4> SUFFICES ASSUME j < k
                   PROVE  FALSE
        BY <2>2
      <4>1. j \in 1..k0
        BY <2>2
      <4>2. j <= n /\ p[j] = q[j]
        BY <2>1, <4>1
      <4>3. j \in 1..n
        BY <4>2
      <4>4. q[j] < q[k]
        BY <3>1, <4>3
      <4> QED
        BY <3>1, <3>2, <4>2, <4>4
    <3>4. k \in 1..m
      BY <2>2, <3>3
    <3>5. p[k] \in Nat /\ p[j] \in Nat
      BY <3>4
    <3>6. ~(p[j] < p[k])
      BY <3>3, <3>4
    <3> QED
      BY <3>2, <3>4, <3>5, <3>6
  <2>5. k <= m => p[k] \in Nat /\ q[k] \in Nat
    <3> SUFFICES ASSUME k <= m
                 PROVE  p[k] \in Nat /\ q[k] \in Nat
      OBVIOUS
    <3>1. k \in 1..m /\ k \in 1..n
      BY <2>2, <2>3
    <3> QED
      BY <3>1
  <2>6. Same(k)
    BY <2>3, <2>4, <2>5
  <2>7. \A j \in 1..k : j \in 1..k0 \/ j = k
    OBVIOUS
  <2> HIDE DEF Same
  <2> QED
    BY <2>1, <2>2, <2>6, <2>7
<1>3. Nat \subseteq K
  <2> HIDE DEF K
  <2> QED
    BY <1>1, <1>2, Induction
<1>4. \A k \in Nat : k >= 1 => Same(k)
  <2> TAKE k \in Nat
  <2>1. k \in K
    BY <1>3
  <2> QED
    BY <2>1
<1>5. ~(m < n) /\ ~(n < m)
  <2>1. m + 1 \in Nat /\ n + 1 \in Nat
    OBVIOUS
  <2>2. Same(m + 1) /\ Same(n + 1)
    BY <1>4, <2>1
  <2> QED
    BY <2>1, <2>2
<1>6. m = n
  BY <1>5
<1>7. \A k \in 1..m : p[k] = q[k]
  BY <1>4
<1> QED
  BY <1>6, <1>7

\* The list that Within is.
LEMMA WithinCounts ==
  ASSUME NEW S, NEW s \in Seq(S), NEW T
  PROVE  /\ Len(Within(s, T)) \in Nat
         /\ \E p : /\ Counts(p, Len(Within(s, T)), ListPlaces(s, T))
                   /\ Within(s, T) = [k \in 1..Len(Within(s, T)) |-> s[p[k]]]
<1>a. Within(s, T) \in Seq(S \cap T)
  BY WithinPlaces
<1>b. \E p \in [1..Len(Within(s, T)) -> 1..Len(s)] :
        /\ \A k \in 1..Len(Within(s, T)) : Within(s, T)[k] = s[p[k]]
        /\ \A i \in 1..Len(s) : s[i] \in T => \E k \in 1..Len(Within(s, T)) : p[k] = i
        /\ \A j, k \in 1..Len(Within(s, T)) : j < k <=> p[j] < p[k]
  BY WithinPlaces
<1> DEFINE w == Within(s, T)
           m == Len(w)
<1>1. PICK p \in [1..m -> 1..Len(s)] :
        /\ \A k \in 1..m : w[k] = s[p[k]]
        /\ \A i \in 1..Len(s) : s[i] \in T => \E k \in 1..m : p[k] = i
        /\ \A j, k \in 1..m : j < k <=> p[j] < p[k]
  BY <1>b
<1>2. m \in Nat /\ (\A k \in 1..m : w[k] \in T) /\ w = [k \in 1..m |-> w[k]]
  BY <1>a
<1> HIDE DEF w, m
<1>3. p \in [1..m -> ListPlaces(s, T)]
  BY <1>1, <1>2 DEF ListPlaces
<1>4. \A i \in ListPlaces(s, T) : \E k \in 1..m : p[k] = i
  BY <1>1 DEF ListPlaces
<1>5. Counts(p, m, ListPlaces(s, T))
  BY <1>1, <1>3, <1>4 DEF Counts
<1>6. w = [k \in 1..m |-> s[p[k]]]
  BY <1>1, <1>2
<1> QED
  BY <1>2, <1>5, <1>6 DEF w, m

\* Whatever lists these places in order gives Within.
LEMMA WithinIs ==
  ASSUME NEW S, NEW s \in Seq(S), NEW T, NEW n \in Nat, NEW q, Counts(q, n, ListPlaces(s, T))
  PROVE  Within(s, T) = [k \in 1..n |-> s[q[k]]]
<1> DEFINE w == Within(s, T)
           m == Len(w)
<1>1. PICK p : Counts(p, m, ListPlaces(s, T)) /\ w = [k \in 1..m |-> s[p[k]]]
  BY WithinCounts
<1>2. m \in Nat
  BY WithinCounts
<1>3. ListPlaces(s, T) \subseteq Nat
  BY DEF ListPlaces
<1> HIDE DEF w, m
<1>4. m = n /\ p = q
  BY <1>1, <1>2, <1>3, OneWay
<1> QED
  BY <1>1, <1>4 DEF w

\* Of two lists one behind the other.
LEMMA WithinConcat ==
  ASSUME NEW S, NEW s \in Seq(S), NEW t \in Seq(S), NEW T
  PROVE  Within(s \o t, T) = Within(s, T) \o Within(t, T)
<1>a. /\ Within(s, T) \in Seq(S \cap T)
      /\ \E p \in [1..Len(Within(s, T)) -> 1..Len(s)] :
           /\ \A k \in 1..Len(Within(s, T)) : Within(s, T)[k] = s[p[k]]
           /\ \A i \in 1..Len(s) : s[i] \in T => \E k \in 1..Len(Within(s, T)) : p[k] = i
           /\ \A j, k \in 1..Len(Within(s, T)) : j < k <=> p[j] < p[k]
  BY WithinPlaces
<1>b. /\ Within(t, T) \in Seq(S \cap T)
      /\ \E q \in [1..Len(Within(t, T)) -> 1..Len(t)] :
           /\ \A k \in 1..Len(Within(t, T)) : Within(t, T)[k] = t[q[k]]
           /\ \A i \in 1..Len(t) : t[i] \in T => \E k \in 1..Len(Within(t, T)) : q[k] = i
           /\ \A j, k \in 1..Len(Within(t, T)) : j < k <=> q[j] < q[k]
  BY WithinPlaces
<1> DEFINE v == Within(s, T)
           w == Within(t, T)
           m == Len(v)
           n == Len(w)
<1>1. v \in Seq(S \cap T) /\ w \in Seq(S \cap T)
  BY <1>a, <1>b
<1>2. PICK p \in [1..m -> 1..Len(s)] :
        /\ \A k \in 1..m : v[k] = s[p[k]]
        /\ \A i \in 1..Len(s) : s[i] \in T => \E k \in 1..m : p[k] = i
        /\ \A j, k \in 1..m : j < k <=> p[j] < p[k]
  BY <1>a
<1>3. PICK q \in [1..n -> 1..Len(t)] :
        /\ \A k \in 1..n : w[k] = t[q[k]]
        /\ \A i \in 1..Len(t) : t[i] \in T => \E k \in 1..n : q[k] = i
        /\ \A j, k \in 1..n : j < k <=> q[j] < q[k]
  BY <1>b
<1> HIDE DEF v, w
<1> DEFINE r == [k \in 1..m + n |-> IF k <= m THEN p[k] ELSE Len(s) + q[k - m]]
           st == s \o t
<1>4. m \in Nat /\ n \in Nat /\ Len(s) \in Nat /\ Len(t) \in Nat /\ m + n \in Nat
  BY <1>1
<1>c. /\ \A k \in 1..m : v[k] \in T
      /\ \A k \in 1..n : w[k] \in T
  BY <1>1
<1> HIDE DEF m, n
<1>5. /\ st \in Seq(S) /\ Len(st) = Len(s) + Len(t)
      /\ \A i \in 1..Len(s) : st[i] = s[i]
      /\ \A i \in 1..Len(t) : st[Len(s) + i] = t[i]
  <2>1. st \in Seq(S)
    OBVIOUS
  <2>2. Len(st) = Len(s) + Len(t)
    OBVIOUS
  <2>3. \A i \in 1..Len(s) : st[i] = s[i]
    OBVIOUS
  <2>4. \A i \in 1..Len(t) : st[Len(s) + i] = t[i]
    OBVIOUS
  <2> QED
    BY <2>1, <2>2, <2>3, <2>4
<1> HIDE DEF st
<1>6. \A k \in 1..m : k \in 1..m + n /\ r[k] = p[k] /\ r[k] \in 1..Len(s)
  <2> TAKE k \in 1..m
  <2>1. k \in 1..m + n /\ k <= m
    BY <1>4
  <2> QED
    BY <1>2, <2>1
<1>7. \A k \in 1..n : m + k \in 1..m + n /\ r[m + k] = Len(s) + q[k] /\ q[k] \in 1..Len(t)
  <2> TAKE k \in 1..n
  <2>1. m + k \in 1..m + n /\ ~(m + k <= m) /\ (m + k) - m = k
    BY <1>4
  <2> QED
    BY <1>3, <2>1
<1>8. \A k \in 1..m + n : k \in 1..m \/ \E l \in 1..n : k = m + l
  <2> TAKE k \in 1..m + n
  <2>1. CASE k <= m
    BY <1>4, <2>1
  <2>2. CASE ~(k <= m)
    <3>1. k - m \in 1..n /\ k = m + (k - m)
      BY <1>4, <2>2
    <3> QED
      BY <3>1
  <2> QED
    BY <2>1, <2>2
<1>9. \A i \in 1..Len(st) : i \in 1..Len(s) \/ \E l \in 1..Len(t) : i = Len(s) + l
  <2> TAKE i \in 1..Len(st)
  <2>1. CASE i <= Len(s)
    BY <1>4, <1>5, <2>1
  <2>2. CASE ~(i <= Len(s))
    <3>1. i - Len(s) \in 1..Len(t) /\ i = Len(s) + (i - Len(s))
      BY <1>4, <1>5, <2>2
    <3> QED
      BY <3>1
  <2> QED
    BY <2>1, <2>2
<1> HIDE DEF r
<1>10. \A k \in 1..m : r[k] \in 1..Len(st) /\ st[r[k]] = v[k]
  <2> TAKE k \in 1..m
  <2>1. r[k] = p[k] /\ r[k] \in 1..Len(s)
    BY <1>6
  <2>2. r[k] \in 1..Len(st)
    BY <1>4, <1>5, <2>1
  <2>3. st[r[k]] = s[p[k]]
    BY <1>5, <2>1
  <2> QED
    BY <1>2, <2>2, <2>3
<1>11. \A k \in 1..n : r[m + k] \in 1..Len(st) /\ st[r[m + k]] = w[k]
  <2> TAKE k \in 1..n
  <2>1. Len(s) + q[k] \in 1..Len(s) + Len(t)
    BY <1>4, <1>7
  <2> QED
    BY <1>3, <1>5, <1>7, <2>1
<1>12. r \in [1..m + n -> 1..Len(st)]
  <2>1. r = [k \in 1..m + n |-> r[k]]
    BY DEF r
  <2> QED
    BY <1>8, <1>10, <1>11, <2>1
<1>13. \A k \in 1..m + n : st[r[k]] \in T
  BY <1>8, <1>10, <1>11, <1>c
<1>14. \A i \in 1..Len(st) : st[i] \in T => \E k \in 1..m + n : r[k] = i
  <2> SUFFICES ASSUME NEW i \in 1..Len(st), st[i] \in T
               PROVE  \E k \in 1..m + n : r[k] = i
    OBVIOUS
  <2>1. CASE i \in 1..Len(s)
    BY <1>2, <1>5, <1>6, <2>1
  <2>2. CASE \E l \in 1..Len(t) : i = Len(s) + l
    <3> PICK l \in 1..Len(t) : i = Len(s) + l
      BY <2>2
    <3>1. PICK k \in 1..n : q[k] = l
      BY <1>3, <1>5
    <3> QED
      BY <1>7, <3>1
  <2> QED
    BY <1>9, <2>1, <2>2
<1>15. \A j, k \in 1..m + n : j < k <=> r[j] < r[k]
  <2> TAKE j, k \in 1..m + n
  <2>1. CASE j \in 1..m /\ k \in 1..m
    BY <1>2, <1>6, <2>1
  <2>2. CASE j \in 1..m /\ \E l \in 1..n : k = m + l
    <3> PICK l \in 1..n : k = m + l
      BY <2>2
    <3>1. r[j] \in 1..Len(s) /\ r[k] = Len(s) + q[l] /\ q[l] \in 1..Len(t)
      BY <1>6, <1>7, <2>2
    <3> QED
      BY <1>4, <2>2, <3>1
  <2>3. CASE k \in 1..m /\ \E l \in 1..n : j = m + l
    <3> PICK l \in 1..n : j = m + l
      BY <2>3
    <3>1. r[k] \in 1..Len(s) /\ r[j] = Len(s) + q[l] /\ q[l] \in 1..Len(t)
      BY <1>6, <1>7, <2>3
    <3> QED
      BY <1>4, <2>3, <3>1
  <2>4. CASE (\E l \in 1..n : j = m + l) /\ \E l \in 1..n : k = m + l
    <3> PICK h \in 1..n : j = m + h
      BY <2>4
    <3> PICK l \in 1..n : k = m + l
      BY <2>4
    <3>1. r[j] = Len(s) + q[h] /\ r[k] = Len(s) + q[l] /\ q[h] \in 1..Len(t) /\ q[l] \in 1..Len(t)
      BY <1>7
    <3>2. h < l <=> q[h] < q[l]
      BY <1>3
    <3> QED
      BY <1>4, <3>1, <3>2
  <2> QED
    BY <1>8, <2>1, <2>2, <2>3, <2>4
<1>16. Within(st, T) = [k \in 1..m + n |-> st[r[k]]]
  <2>1. st \in Seq(S)
    BY <1>5
  <2>2. m + n \in Nat
    BY <1>4
  <2>3. r \in [1..m + n -> ListPlaces(st, T)]
    BY <1>12, <1>13 DEF ListPlaces
  <2>4. \A i \in ListPlaces(st, T) : \E k \in 1..m + n : r[k] = i
    BY <1>14 DEF ListPlaces
  <2>5. Counts(r, m + n, ListPlaces(st, T))
    BY <1>15, <2>3, <2>4 DEF Counts
  <2> QED
    BY <2>1, <2>2, <2>5, WithinIs
<1> DEFINE vw == v \o w
<1>17. /\ vw \in Seq(S \cap T) /\ Len(vw) = m + n
       /\ \A k \in 1..m : vw[k] = v[k]
       /\ \A k \in 1..n : vw[m + k] = w[k]
  <2>1. vw \in Seq(S \cap T)
    BY <1>1
  <2>2. Len(vw) = m + n
    BY <1>1 DEF m, n
  <2>3. \A k \in 1..m : vw[k] = v[k]
    BY <1>1 DEF m
  <2>4. \A k \in 1..n : vw[m + k] = w[k]
    BY <1>1 DEF m, n
  <2> QED
    BY <2>1, <2>2, <2>3, <2>4
<1> HIDE DEF vw
<1>18. \A k \in 1..m + n : vw[k] = st[r[k]]
  <2> TAKE k \in 1..m + n
  <2>1. CASE k \in 1..m
    <3>1. vw[k] = v[k]
      BY <1>17, <2>1
    <3> QED
      BY <1>10, <2>1, <3>1
  <2>2. CASE \E l \in 1..n : k = m + l
    <3> PICK l \in 1..n : k = m + l
      BY <2>2
    <3>1. vw[m + l] = w[l] /\ st[r[m + l]] = w[l]
      BY <1>11, <1>17
    <3> QED
      BY <3>1
  <2> QED
    BY <1>8, <2>1, <2>2
<1>19. vw = [k \in 1..m + n |-> vw[k]]
  BY <1>17
<1>20. vw = Within(st, T)
  BY <1>16, <1>18, <1>19
<1> QED
  BY <1>20 DEF st, vw, v, w, m, n

\* Filtered twice is filtered by both.
LEMMA WithinTwice ==
  ASSUME NEW S, NEW s \in Seq(S), NEW T, NEW U
  PROVE  Within(Within(s, T), U) = Within(s, T \cap U)
<1> DEFINE v == Within(s, T)
           w == Within(v, U)
<1>1. v \in Seq(S \cap T)
  BY WithinPlaces
<1>2. PICK p \in [1..Len(v) -> 1..Len(s)] :
        /\ \A k \in 1..Len(v) : v[k] = s[p[k]]
        /\ \A i \in 1..Len(s) : s[i] \in T => \E k \in 1..Len(v) : p[k] = i
        /\ \A j, k \in 1..Len(v) : j < k <=> p[j] < p[k]
  BY WithinPlaces
<1> HIDE DEF v
<1>3. w \in Seq((S \cap T) \cap U)
  BY <1>1, WithinPlaces
<1>4. PICK q \in [1..Len(w) -> 1..Len(v)] :
        /\ \A k \in 1..Len(w) : w[k] = v[q[k]]
        /\ \A i \in 1..Len(v) : v[i] \in U => \E k \in 1..Len(w) : q[k] = i
        /\ \A j, k \in 1..Len(w) : j < k <=> q[j] < q[k]
  BY <1>1, WithinPlaces
<1> HIDE DEF w
<1> DEFINE r == [k \in 1..Len(w) |-> p[q[k]]]
<1>5. Len(w) \in Nat /\ \A k \in 1..Len(w) : w[k] \in T \cap U
  BY <1>3
<1>6. /\ r \in [1..Len(w) -> 1..Len(s)]
      /\ \A k \in 1..Len(w) : s[r[k]] = w[k] /\ r[k] = p[q[k]]
  BY <1>2, <1>4
<1> HIDE DEF r
<1>7. \A i \in 1..Len(s) : s[i] \in T \cap U => \E k \in 1..Len(w) : r[k] = i
  <2> SUFFICES ASSUME NEW i \in 1..Len(s), s[i] \in T \cap U
               PROVE  \E k \in 1..Len(w) : r[k] = i
    OBVIOUS
  <2>1. PICK j \in 1..Len(v) : p[j] = i
    BY <1>2
  <2>2. v[j] \in U
    BY <1>2, <2>1
  <2>3. PICK k \in 1..Len(w) : q[k] = j
    BY <1>4, <2>2
  <2> QED
    BY <1>6, <2>1, <2>3
<1>8. \A j, k \in 1..Len(w) : j < k <=> r[j] < r[k]
  <2> TAKE j, k \in 1..Len(w)
  <2>1. q[j] \in 1..Len(v) /\ q[k] \in 1..Len(v)
    BY <1>4
  <2>2. (j < k <=> q[j] < q[k]) /\ (q[j] < q[k] <=> p[q[j]] < p[q[k]])
    BY <1>2, <1>4, <2>1
  <2> QED
    BY <1>6, <2>2
<1>9. \A k \in 1..Len(w) : s[r[k]] \in T \cap U
  BY <1>5, <1>6
<1>10. Within(s, T \cap U) = [k \in 1..Len(w) |-> s[r[k]]]
  <2>1. Len(w) \in Nat
    BY <1>5
  <2>2. r \in [1..Len(w) -> ListPlaces(s, T \cap U)]
    BY <1>6, <1>9 DEF ListPlaces
  <2>3. \A i \in ListPlaces(s, T \cap U) : \E k \in 1..Len(w) : r[k] = i
    BY <1>7 DEF ListPlaces
  <2>4. Counts(r, Len(w), ListPlaces(s, T \cap U))
    BY <1>8, <2>2, <2>3 DEF Counts
  <2>5. PICK m \in Nat : m = Len(w)
    BY <2>1
  <2>6. Counts(r, m, ListPlaces(s, T \cap U))
    BY <2>4, <2>5
  <2>7. Within(s, T \cap U) = [k \in 1..m |-> s[r[k]]]
    BY <2>6, WithinIs, SMTT(30)
  <2> QED
    BY <2>5, <2>7
<1>11. w = [k \in 1..Len(w) |-> w[k]]
  BY <1>3
<1>12. w = Within(s, T \cap U)
  BY <1>6, <1>10, <1>11
<1> QED
  BY <1>12 DEF v, w

\* What the elements of X make of those of S.
Makes(X, S) == [X -> [S -> S]]

\* What there is after each element of the list, s being there before.
Stages(after, S, list, f, s) ==
  /\ after \in [0..Len(list) -> S] /\ after[0] = s
  /\ \A i \in 1..Len(list) : after[i] = f[list[i]][after[i - 1]]

\* Going along a list passes from one to the next of these.
LEMMA AlongIs ==
  ASSUME NEW X, NEW S, NEW f \in Makes(X, S), NEW s \in S, NEW list \in Seq(X)
  PROVE  \E after : Stages(after, S, list, f, s) /\ Along(list, f, s) = after[Len(list)]
<1> USE DEF Makes
<1> DEFINE N == Len(list)
           Goes(g, n) == g[0] = s /\ \A i \in 1..n : g[i] = f[list[i]][g[i - 1]]
           P(h) == h = [i \in 0..N |-> IF i = 0 THEN s ELSE f[list[i]][h[i - 1]]]
           T == {n \in Nat : n <= N => \E g \in [0..n -> S] : Goes(g, n)}
<1>a. N \in Nat /\ \A i \in 1..N : list[i] \in X
  OBVIOUS
<1>1. 0 \in T
  <2>1. [i \in 0..0 |-> s] \in [0..0 -> S] /\ Goes([i \in 0..0 |-> s], 0)
    OBVIOUS
  <2> QED
    BY <2>1
<1>2. ASSUME NEW n \in Nat, n \in T PROVE n + 1 \in T
  <2> SUFFICES ASSUME n + 1 <= N PROVE \E g \in [0..n + 1 -> S] : Goes(g, n + 1)
    BY <1>2
  <2>1. PICK g \in [0..n -> S] : Goes(g, n)
    BY <1>2, <1>a
  <2> DEFINE h == [i \in 0..n + 1 |-> IF i <= n THEN g[i] ELSE f[list[n + 1]][g[n]]]
  <2>2. f[list[n + 1]][g[n]] \in S
    BY <1>a, <2>1
  <2>3. h \in [0..n + 1 -> S]
    BY <2>1, <2>2
  <2>4. h[0] = s
    BY <2>1
  <2>5. \A i \in 1..n + 1 : h[i] = f[list[i]][h[i - 1]]
    <3> SUFFICES ASSUME NEW i \in 1..n + 1 PROVE h[i] = f[list[i]][h[i - 1]]
      OBVIOUS
    <3>1. CASE i <= n
      <4>1. i \in 1..n /\ i - 1 \in 0..n /\ i - 1 <= n
        BY <3>1
      <4>2. h[i] = g[i] /\ h[i - 1] = g[i - 1]
        BY <4>1
      <4> QED
        BY <2>1, <4>1, <4>2
    <3>2. CASE i = n + 1
      <4>1. i - 1 = n /\ h[i - 1] = g[n] /\ h[i] = f[list[n + 1]][g[n]]
        BY <3>2
      <4> QED
        BY <3>2, <4>1
    <3> QED
      BY <3>1, <3>2
  <2> HIDE DEF h
  <2> QED
    BY <2>3, <2>4, <2>5
<1>3. N \in T
  <2> HIDE DEF T
  <2> QED
    BY <1>a, <1>1, <1>2, Induction
<1>4. PICK g \in [0..N -> S] : Goes(g, N)
  BY <1>3, <1>a
<1>5. P(g)
  <2>1. \A i \in 0..N : g[i] = IF i = 0 THEN s ELSE f[list[i]][g[i - 1]]
    BY <1>4
  <2> QED
    BY <2>1
<1> DEFINE c == CHOOSE h : P(h)
<1>6. P(c)
  BY <1>5
<1>7. Along(list, f, s) = c[N]
  BY DEF Along
<1> HIDE DEF c
<1>8. Goes(c, N)
  <2>1. \A i \in 0..N : c[i] = IF i = 0 THEN s ELSE f[list[i]][c[i - 1]]
    BY <1>6
  <2>2. 0 \in 0..N /\ \A i \in 1..N : i \in 0..N /\ i # 0
    BY <1>a
  <2> HIDE DEF N
  <2> QED
    BY <2>1, <2>2
<1>10. \A i \in 0..N : c[i] \in S
  <2>1. ASSUME NEW i \in 0..N PROVE c[i] \in S
    <3> DEFINE V == {n \in Nat : n <= N => c[n] \in S}
    <3>1. 0 \in V
      BY <1>8
    <3>2. ASSUME NEW n \in Nat, n \in V PROVE n + 1 \in V
      <4> SUFFICES ASSUME n + 1 <= N PROVE c[n + 1] \in S
        OBVIOUS
      <4>1. c[n] \in S /\ n + 1 \in 1..N /\ (n + 1) - 1 = n
        BY <3>2, <1>a
      <4>2. c[n + 1] = f[list[n + 1]][c[n]]
        BY <4>1, <1>8
      <4> QED
        BY <4>1, <4>2, <1>a
    <3>3. i \in V
      <4>1. i \in Nat
        OBVIOUS
      <4> HIDE DEF V
      <4> QED
        BY <3>1, <3>2, <4>1, Induction
    <3> QED
      BY <3>3
  <2> QED
    BY <2>1
<1>11. c \in [0..N -> S]
  BY <1>6, <1>10
<1>12. Stages(c, S, list, f, s)
  BY <1>8, <1>11 DEF Stages
<1> QED
  BY <1>7, <1>12

\* What is worked out from 0 up to n, each time from the one before, is there.
Upwards(g, C, F, base, n) ==
  g \in [0..n -> C] /\ g[0] = base /\ \A k \in 1..n : g[k] = F[g[k - 1]]

LEMMA UpwardsExist ==
  ASSUME NEW C, NEW F, \A c \in C : F[c] \in C, NEW base \in C, NEW n \in Nat
  PROVE  \E g : Upwards(g, C, F, base, n)
<1> DEFINE f == [x \in {0} |-> [c \in C |-> F[c]]]
<1>1. f \in Makes({0}, C) /\ \A c \in C : f[0][c] = F[c]
  BY DEF Makes
<1>2. PICK list \in Seq({0}) : Len(list) = n /\ \A k \in 1..n : list[k] = 0
  <2>1. [k \in 1..n |-> 0] \in Seq({0}) /\ Len([k \in 1..n |-> 0]) = n
    OBVIOUS
  <2> QED
    BY <2>1
<1> HIDE DEF f
<1>3. PICK g : Stages(g, C, list, f, base)
  BY <1>1, <1>2, AlongIs
<1>4. g \in [0..n -> C] /\ g[0] = base /\ \A k \in 1..n : g[k] = f[list[k]][g[k - 1]]
  BY <1>2, <1>3 DEF Stages
<1>5. \A k \in 1..n : g[k - 1] \in C
  BY <1>4
<1>6. \A k \in 1..n : g[k] = F[g[k - 1]]
  BY <1>1, <1>2, <1>4, <1>5
<1> QED
  BY <1>4, <1>6 DEF Upwards

=============================================================================
